---- MODULE Spec2Model ----
(***************************************************************************)
(* A model of the HelixQL language server (src/src/main.rs): the Document  *)
(* Store (Backend.documents), the Workspace Cache (Backend.parsed_cache),  *)
(* the analysis run (Backend::analyze_workspace) with its per-file         *)
(* publication of diagnostics, and the request handlers.                   *)
(*                                                                         *)
(* Program strings that the code scans character by character (document   *)
(* text, parser error text) are sequences of one-character strings; the    *)
(* strings the code only compares, formats or stores (file names, type     *)
(* names, messages) are TLA+ strings.  Join turns the first into the       *)
(* second.  A Rust Option is a sequence of length at most one.  A DashMap  *)
(* or HashMap is a function whose DOMAIN is its key set.                   *)
(*                                                                         *)
(* The parser (HelixParser::parse_source) and the analyzer (analyze) are   *)
(* external crates: each run draws their results from Collaborators.       *)
(***************************************************************************)
EXTENDS Integers, Sequences, FiniteSets, TLC

VARIABLES
    documents,      \* Backend.documents: DashMap<Url, String>
    parsed_cache,   \* Backend.parsed_cache: DashMap<String, Source>
    disk,           \* the file system: path -> on-disk entry
    oracle,         \* what the parser and the analyzer can return in a run
    runs,           \* analyze_workspace calls in flight, in start order
    published,      \* the editor's side: uri -> the list last published
    response,       \* what the handler of the last step came to, when it
                    \*   returned within the step: the answer to a request,
                    \*   the run of a notification, a panic
    lastText,       \* history: uri -> the text of its last open or change,
                    \*   none once closed
    stale,          \* history: key -> the model of the last successful run,
                    \*   while every later run of the key failed to parse
    completed,      \* history: key -> the model of the last run of the key
                    \*   that returned after parser and analyzer succeeded
    events          \* the number of notifications and requests handled so far

vars == <<documents, parsed_cache, disk, oracle, runs, published, response,
          lastText, stale, completed, events>>

(***************************************************************************)
(* Bounds of the model.                                                    *)
(***************************************************************************)
MaxEvents == 2      \* notifications and requests per behaviour
MaxInflight == 2    \* analysis runs in flight at once

(***************************************************************************)
(* Options, strings, sequences.                                            *)
(***************************************************************************)
NoneOpt == <<>>
Some(v) == <<v>>
IsSome(o) == Len(o) = 1
Get(o) == o[1]

\* What a function of a handler comes to: it returns v, or the thread
\* panics (an index out of bounds, a slice off a character boundary, an
\* addition that overflows in a build with overflow checks).
Ret(v) == [panic |-> FALSE, value |-> v]
Panic == [panic |-> TRUE, value |-> NoneOpt]

Range(s) == {s[i] : i \in DOMAIN s}

\* map.insert(k, v)
Insert(map, k, v) == [x \in DOMAIN map \cup {k} |-> IF x = k THEN v ELSE map[x]]
\* map.remove(k)
Remove(map, k) == [x \in DOMAIN map \ {k} |-> map[x]]
EmptyMap == <<>>

\* str::find(pat): the 1-based index of the first occurrence, 0 when none.
FindSub(s, pat) ==
    LET hits == {i \in 1..(Len(s) - Len(pat) + 1) :
                    SubSeq(s, i, i + Len(pat) - 1) = pat}
    IN  IF hits = {} THEN 0 ELSE CHOOSE i \in hits : \A j \in hits : i <= j

\* str::rfind(pat): the 1-based index of the last occurrence, 0 when none.
RFindSub(s, pat) ==
    LET hits == {i \in 1..(Len(s) - Len(pat) + 1) :
                    SubSeq(s, i, i + Len(pat) - 1) = pat}
    IN  IF hits = {} THEN 0 ELSE CHOOSE i \in hits : \A j \in hits : i >= j

\* str::split(sep) for a one-character separator.
RECURSIVE SplitOn(_, _)
SplitOn(s, sep) ==
    LET i == FindSub(s, <<sep>>)
    IN  IF i = 0 THEN <<s>>
        ELSE <<SubSeq(s, 1, i - 1)>> \o SplitOn(SubSeq(s, i + 1, Len(s)), sep)

Digits == <<"0", "1", "2", "3", "4", "5", "6", "7", "8", "9">>
DigitVal(c) == (CHOOSE i \in DOMAIN Digits : Digits[i] = c) - 1

(***************************************************************************)
(* u32 values (LSP positions).  A u32 is the pair <<hi, lo>> of its two    *)
(* 16-bit halves, so that the whole range 0 .. 2^32 - 1 and its overflow   *)
(* are within the integers of the model checker.                           *)
(***************************************************************************)
Half == 65536
\* n as u32, for a non-negative integer n (the cast keeps the low 32 bits)
U32(n) == <<(n \div Half) % Half, n % Half>>
U32Zero == <<0, 0>>
\* u32::saturating_sub(1)
U32SaturatingSub1(x) ==
    IF x = U32Zero THEN U32Zero
    ELSE IF x[2] = 0 THEN <<x[1] - 1, Half - 1>> ELSE <<x[1], x[2] - 1>>
\* x + n for a small n: TRUE when the sum exceeds u32::MAX
U32AddOverflows(x, n) == x[1] + ((x[2] + n) \div Half) >= Half
\* x + n, wrapping
U32WrappingAdd(x, n) == <<(x[1] + ((x[2] + n) \div Half)) % Half, (x[2] + n) % Half>>

\* The digits of s read as a u32, most significant first: the value so far,
\* or none once it exceeds u32::MAX.
RECURSIVE DecValue(_, _)
DecValue(s, acc) ==
    IF s = <<>> \/ ~IsSome(acc) THEN acc
    ELSE LET lo == Get(acc)[2] * 10 + DigitVal(Head(s))
             hi == Get(acc)[1] * 10 + (lo \div Half)
         IN  DecValue(Tail(s), IF hi >= Half THEN NoneOpt ELSE Some(<<hi, lo % Half>>))

\* str::parse::<u32>(): digits with an optional leading '+', no overflow.
ParseU32(s) ==
    LET body == IF s # <<>> /\ s[1] = "+" THEN Tail(s) ELSE s
    IN  IF body # <<>> /\ (\A i \in DOMAIN body : body[i] \in Range(Digits))
        THEN DecValue(body, Some(U32Zero)) ELSE NoneOpt

\* usize::saturating_sub(1)
SaturatingSub1(n) == IF n = 0 THEN 0 ELSE n - 1

(***************************************************************************)
(* parse_error_location                                                    *)
(***************************************************************************)
parse_error_location(error_msg) ==
    LET arrow_idx == FindSub(error_msg, <<"-", "-", ">", " ">>)
        after_arrow == SubSeq(error_msg, arrow_idx + 4, Len(error_msg))
        newline_idx == FindSub(after_arrow, <<"\n">>)
        loc_str == SubSeq(after_arrow, 1, newline_idx - 1)
        parts == SplitOn(loc_str, ":")
    IN  IF arrow_idx # 0 /\ newline_idx # 0 /\ Len(parts) >= 2
           /\ IsSome(ParseU32(parts[1])) /\ IsSome(ParseU32(parts[2]))
        THEN <<U32SaturatingSub1(Get(ParseU32(parts[1]))),
               U32SaturatingSub1(Get(ParseU32(parts[2])))>>
        ELSE <<U32Zero, U32Zero>>

(***************************************************************************)
(* Paths and URIs.  Every URI of the model is a file URI of an absolute    *)
(* path, so Url::to_file_path and Url::from_file_path succeed and a URI is *)
(* its path: the directory, the file stem and the extension.               *)
(***************************************************************************)
PA == [dir |-> "/d1", stem |-> "a", ext |-> "hx"]
PB == [dir |-> "/d1", stem |-> "b", ext |-> "hql"]
PC == [dir |-> "/d1", stem |-> "c", ext |-> "txt"]
PD == [dir |-> "/d2", stem |-> "a", ext |-> "hx"]
Uris == {PA, PB, PC, PD}
\* The URIs the editor sends: the client attaches the server to hx and hql
\* documents only.
EditorUris == {PA, PB, PD}

\* Path::file_name
FileName(p) == p.stem \o "." \o p.ext
\* uri.to_file_path().parent(), the workspace key
DirKey(uri) == uri.dir
Keys == {DirKey(u) : u \in Uris}

(***************************************************************************)
(* Texts.  A text is the sequence of its UTF-8 code units: every character *)
(* stands at its first unit and is followed by Cont once for each further  *)
(* unit of its encoding, so that str::len is Len, a byte index is an index *)
(* of the sequence, and str::chars drops the Cont units.                   *)
(***************************************************************************)
Cont == "cont"

\* The String of a text (format!("{}", e), chars().collect()): its
\* characters one after the other; the Cont units belong to the character
\* before them and add nothing.
RECURSIVE Join(_)
Join(s) ==
    IF s = <<>> THEN ""
    ELSE (IF Head(s) = Cont THEN "" ELSE Head(s)) \o Join(Tail(s))

TextA == <<"N", "<", "U", "s", "e", "r", ">">>
TextB ==
    <<"N", "<", "U", "s", "e", "r", ">", ":", ":", "{", "n", "a", "m", "e", "}">>
TextDisk == <<"N", ":", ":", "U", "s", "e", "r", " ", "{", "}">>
\* The texts the editor sends: a document is opened with TextA and edited
\* to TextB.
OpenTexts == {TextA}
ChangeTexts == {TextB}

\* An on-disk entry: a readable file with its text, or an entry whose read
\* fails (a directory, a file without read permission).
DiskFile(t) == [readable |-> TRUE, text |-> t]
DiskUnreadable == [readable |-> FALSE, text |-> <<>>]

\* The file system: the entries, and for each directory the order in which
\* fs::read_dir lists them.  In DiskFull every path exists and /d2/a.hx
\* cannot be read; in DiskBare /d2 holds no file and /d1 lists b.hql first.
DiskFull ==
    [entries |-> (PA :> DiskFile(TextDisk)) @@ (PB :> DiskFile(TextDisk))
                 @@ (PC :> DiskFile(TextDisk)) @@ (PD :> DiskUnreadable),
     listing |-> ("/d1" :> <<PA, PC, PB>>) @@ ("/d2" :> <<PD>>)]
DiskBare ==
    [entries |-> (PA :> DiskFile(TextDisk)) @@ (PB :> DiskFile(TextDisk)),
     listing |-> ("/d1" :> <<PB, PA>>)]
DiskInits == {DiskFull, DiskBare}

(***************************************************************************)
(* The parser's output (helix_db::helixc::parser::types::Source), as far   *)
(* as the server reads it.  schema is the HashMap<usize, Schema> in the    *)
(* iteration order of the instance.                                        *)
(***************************************************************************)
Loc(file, sl, sc, el, ec) ==
    [filepath |-> file, start |-> [line |-> sl, column |-> sc],
     end |-> [line |-> el, column |-> ec]]

FtString == [tag |-> "String"]
FtI32 == [tag |-> "I32"]

Field(n, ft) == [name |-> n, field_type |-> ft]

SchemaUser ==
    [node_schemas |->
        <<[name |-> <<Loc(Some("a.hx"), 1, 4, 1, 8), "User">>,
           fields |-> <<Field("name", FtString)>>]>>,
     edge_schemas |-> <<>>,
     vector_schemas |-> <<>>]

SchemaPost ==
    [node_schemas |->
        <<[name |-> <<Loc(Some("b.hql"), 2, 4, 2, 8), "Post">>,
           fields |-> <<Field("title", FtString)>>]>>,
     edge_schemas |-> <<>>,
     vector_schemas |-> <<>>]

SrcUser == [schema |-> <<SchemaUser>>, queries |-> <<>>]
SrcPost == [schema |-> <<SchemaPost>>, queries |-> <<>>]
Sources == {SrcUser, SrcPost}

\* Further field types, expressions, statements and queries of the parser's
\* output.
FtDate == [tag |-> "Date"]
FtIdentifier(n) == [tag |-> "Identifier", name |-> n]
FtArray(ft) == [tag |-> "Array", inner |-> ft]

Parameter(n, ft, optional) ==
    [name |-> <<Loc(Some("a.hx"), 1, 1, 1, 1), n>>,
     param_type |-> <<Loc(Some("a.hx"), 1, 1, 1, 1), ft>>,
     is_optional |-> optional]

Assignment(variable, expr) ==
    [statement |-> [tag |-> "Assignment", variable |-> variable,
                    value |-> [expr |-> expr]]]
ForLoop(statements) ==
    [statement |-> [tag |-> "ForLoop", statements |-> statements]]

ExprStringLiteral == [tag |-> "StringLiteral"]
ExprIntegerLiteral == [tag |-> "IntegerLiteral"]
ExprIdentifier == [tag |-> "Identifier"]
ExprAddNode(t) == [tag |-> "AddNode", node_type |-> t]
ExprTraversalFromNode(t) ==
    [tag |-> "Traversal", steps |-> <<>>, start |-> [tag |-> "Node", node_type |-> t]]

Query(file, start_line, end_line, parameters, statements) ==
    [loc |-> Loc(Some(file), start_line, 1, end_line, 1),
     parameters |-> parameters, statements |-> statements]

\* A schema with a node named like a documented keyword, an edge with
\* properties and a vector.
SchemaRich ==
    [node_schemas |->
        <<[name |-> <<Loc(Some("a.hx"), 1, 4, 1, 8), "Date">>, fields |-> <<>>],
          [name |-> <<Loc(Some("a.hx"), 2, 4, 2, 8), "User">>,
           fields |-> <<Field("name", FtString), Field("age", FtI32)>>]>>,
     edge_schemas |->
        <<[name |-> <<Loc(Some("a.hx"), 3, 4, 3, 11), "Follows">>,
           from |-> <<Loc(Some("a.hx"), 3, 20, 3, 24), "User">>,
           to |-> <<Loc(Some("a.hx"), 3, 30, 3, 34), "User">>,
           properties |-> Some(<<Field("since", FtDate)>>)]>>,
     vector_schemas |->
        <<[name |-> "Doc", loc |-> Loc(NoneOpt, 4, 1, 4, 20),
           fields |-> <<Field("tags", FtArray(FtString))>>]>>]

\* A query over line 1 whose variables and parameters share their names
\* with a keyword, a type, each other and a field.
QueryRich ==
    Query("a.hx", 1, 1,
          <<Parameter("u", FtIdentifier("User"), FALSE),
            Parameter("name", FtString, TRUE)>>,
          <<Assignment("Date", ExprStringLiteral),
            Assignment("User", ExprAddNode(Some("User"))),
            Assignment("x", ExprIdentifier),
            ForLoop(<<Assignment("u", ExprTraversalFromNode("User"))>>)>>)

SrcRich == [schema |-> <<SchemaRich>>, queries |-> <<QueryRich>>]

\* Two queries of two files of the bundle over the same lines: the first has
\* neither variables nor parameters, the second has both under one name.
SrcTwoQueries ==
    [schema |-> <<SchemaUser>>,
     queries |-> <<Query("a.hx", 1, 1, <<>>, <<>>),
                   Query("b.hql", 1, 2, <<Parameter("zz", FtI32, FALSE)>>,
                         <<Assignment("zz", ExprIntegerLiteral)>>)>>]

\* Two queries of two files of the bundle whose spans share line 1 and that
\* declare a parameter and assign a variable under the same names: the query
\* of b.hql comes first, the query of a.hx also spans line 2.
SrcSiblings ==
    [schema |-> <<SchemaUser>>,
     queries |-> <<Query("b.hql", 1, 1, <<Parameter("age", FtString, TRUE)>>,
                         <<Assignment("zz", ExprStringLiteral)>>),
                   Query("a.hx", 1, 2,
                         <<Parameter("age", FtI32, FALSE), Parameter("x", FtDate, TRUE)>>,
                         <<Assignment("u", ExprIntegerLiteral),
                           Assignment("zz", ExprIntegerLiteral)>>)>>]

\* Two schema versions that both define the node User, with different
\* fields.
SrcVersions == [schema |-> <<SchemaUser, SchemaRich>>, queries |-> <<>>]

\* Two schema versions: the first defines an edge and a vector both named
\* Doc in b.hql, the second is SchemaRich, whose vector Doc carries no file
\* name.
SchemaShadow ==
    [node_schemas |-> <<>>,
     edge_schemas |->
        <<[name |-> <<Loc(Some("b.hql"), 5, 4, 5, 7), "Doc">>,
           from |-> <<Loc(Some("b.hql"), 5, 16, 5, 20), "User">>,
           to |-> <<Loc(Some("b.hql"), 5, 26, 5, 30), "User">>,
           properties |-> NoneOpt]>>,
     vector_schemas |->
        <<[name |-> "Doc", loc |-> Loc(Some("b.hql"), 6, 1, 6, 12), fields |-> <<>>]>>]
SrcShadow == [schema |-> <<SchemaShadow, SchemaRich>>, queries |-> <<>>]

\* The documents and models the hover specification starts from.
HoverText1 ==
    <<"D", "a", "t", "e", " ", "U", "s", "e", "r", " ", "u", " ", "N", "<",
      "U", "s", "e", "r", ">", ":", ":", "{", "n", "a", "m", "e", ",", " ",
      "a", "g", "e", "}", " ", "z", "z", "\n", "U", "s", "e", "r", " ",
      "u", " ", "n", "a", "m", "e", " ", "x", "\n">>
HoverText2 ==
    <<"E", "<", "F", "o", "l", "l", "o", "w", "s", ">", ":", ":", "{", "s",
      "i", "n", "c", "e", ",", " ", "i", "d", "}", " ", "V", "<", "D", "o",
      "c", ">", ":", ":", "{", "t", "a", "g", "s", "}", "\r", "\n", "F",
      "o", "l", "l", "o", "w", "s", " ", "D", "o", "c", " ", "N", "<">>
HoverText3 ==
    <<"é", Cont, " ", "N", "<", "U", "s", "e", "r", ">", ":", ":", "{",
      "n", "a", "m", "e", "}">>
HoverTexts == {HoverText1, HoverText2, HoverText3}
HoverSources == {SrcUser, SrcRich, SrcTwoQueries}

\* The text of a parser or analyzer failure (its Display form).
ErrLocated == <<" ", "-", "-", ">", " ", "2", ":", "3", "\n", " ", "|">>
ErrPlain == <<"b", "é", Cont, "d">>
\* An error text whose column, less one and plus 50, exceeds u32::MAX.
ErrOverflow ==
    <<"-", "-", ">", " ", "1", ":", "4", "2", "9", "4", "9", "6", "7", "2", "9", "5",
      "\n">>

ParseOk(src) == [ok |-> TRUE, source |-> src, err |-> <<>>]
ParseErr(e) == [ok |-> FALSE, source |-> SrcUser, err |-> e]

\* An analyzer diagnostic (helixc::analyzer::diagnostic::Diagnostic).
HxDiag(file, sev, msg, hint, sl, sc, el, ec) ==
    [location |-> Loc(file, sl, sc, el, ec), severity |-> sev,
     message |-> msg, hint |-> hint]

DiagA == HxDiag(Some("a.hx"), "Error", "unknown type", NoneOpt, 1, 1, 1, 5)

AnalyzeOk(ds) == [ok |-> TRUE, diagnostics |-> ds, err |-> <<>>]
AnalyzeErr(e) == [ok |-> FALSE, diagnostics |-> <<>>, err |-> e]

\* What the two collaborators can return in one run: the parser's result and,
\* when the parser succeeded, the analyzer's result on its output.
NotRun == AnalyzeOk(<<>>)
Collaborators ==
    {<<ParseErr(ErrLocated), NotRun>>,
     <<ParseOk(SrcUser), AnalyzeOk(<<>>)>>,
     <<ParseOk(SrcPost), AnalyzeOk(<<DiagA>>)>>,
     <<ParseOk(SrcUser), AnalyzeErr(ErrPlain)>>}

\* Analyzer diagnostics with and without hint text, positions that are 0,
\* every severity, a diagnostic that names no file and one that names a
\* file outside the workspace.
DiagHint ==
    HxDiag(Some("a.hx"), "Warning", "unused variable", Some("remove it"), 3, 7, 70001, 12)
DiagZero == HxDiag(Some("b.hql"), "Info", "empty query", NoneOpt, 0, 0, 0, 0)
DiagAnon == HxDiag(NoneOpt, "Empty", "no file", NoneOpt, 1, 1, 2, 1)
DiagStray == HxDiag(Some("z.hx"), "Hint", "stray", Some("ignore"), 5, 2, 5, 9)
DiagCollaborators ==
    {<<ParseOk(SrcUser), AnalyzeOk(<<DiagHint, DiagZero>>)>>,
     <<ParseOk(SrcUser), AnalyzeOk(<<DiagAnon, DiagA>>)>>,
     <<ParseOk(SrcPost), AnalyzeOk(<<DiagStray>>)>>,
     <<ParseErr(ErrLocated), NotRun>>}

(***************************************************************************)
(* get_sibling_files: the entries of the URI's directory whose extension   *)
(* is hx or hql.  The listing order is the file system's.                  *)
(***************************************************************************)
\* Mutant of get_sibling_files: the listing descends from the root, so that
\* the files of every directory are members.
get_sibling_files_from_root(uri) ==
    LET dirs == {d \in DOMAIN disk.listing : d # uri.dir}
        others == IF dirs = {} THEN <<>>
                  ELSE disk.listing[CHOOSE d \in dirs : TRUE]
        own == IF uri.dir \in DOMAIN disk.listing THEN disk.listing[uri.dir] ELSE <<>>
    IN  SelectSeq(own \o others, LAMBDA p : p.ext = "hx" \/ p.ext = "hql")

get_sibling_files(uri) ==
    IF uri.dir \in DOMAIN disk.listing
    THEN SelectSeq(disk.listing[uri.dir], LAMBDA p : p.ext = "hx" \/ p.ext = "hql")
    ELSE <<>>

\* fs::read_to_string(path).unwrap_or_default()
read_to_string(p) ==
    IF p \in DOMAIN disk.entries /\ disk.entries[p].readable
    THEN disk.entries[p].text ELSE <<>>

\* Mutant of BuildHxFiles: the on-disk text wins over an open buffer.
BuildHxFilesDiskFirst(files, docs) ==
    [i \in DOMAIN files |->
        [name |-> FileName(files[i]),
         content |-> IF files[i] \in DOMAIN disk.entries
                     THEN read_to_string(files[i]) ELSE docs[files[i]]]]

\* analyze_workspace, the loop that builds hx_files
BuildHxFiles(files, docs) ==
    [i \in DOMAIN files |->
        [name |-> FileName(files[i]),
         content |-> IF files[i] \in DOMAIN docs THEN docs[files[i]]
                     ELSE read_to_string(files[i])]]

(***************************************************************************)
(* Diagnostic translation.                                                 *)
(***************************************************************************)
LspSeverity(sev) ==
    CASE sev = "Error" -> "ERROR"
      [] sev = "Warning" -> "WARNING"
      [] sev = "Info" -> "INFORMATION"
      [] sev = "Hint" -> "HINT"
      [] sev = "Empty" -> "INFORMATION"

\* Mutant of LspDiagnostic: the subtraction wraps around at 0.
LspDiagnosticWrapping(diag) ==
    LET Sub1(n) == IF n = 0 THEN <<Half - 1, Half - 1>> ELSE U32(n - 1)
    IN  [range |->
            [start |-> [line |-> Sub1(diag.location.start.line),
                        character |-> Sub1(diag.location.start.column)],
             end |-> [line |-> Sub1(diag.location.end.line),
                      character |-> Sub1(diag.location.end.column)]],
         severity |-> LspSeverity(diag.severity),
         source |-> "helixql",
         message |-> diag.message]

LspDiagnostic(diag) ==
    [range |->
        [start |-> [line |-> U32(SaturatingSub1(diag.location.start.line)),
                    character |-> U32(SaturatingSub1(diag.location.start.column))],
         end |-> [line |-> U32(SaturatingSub1(diag.location.end.line)),
                  character |-> U32(SaturatingSub1(diag.location.end.column))]],
     severity |-> LspSeverity(diag.severity),
     source |-> "helixql",
     message |-> diag.message]

\* The outcomes of building the diagnostic for a parser or analyzer
\* failure.  col + 50 is an unchecked u32 addition: when the sum exceeds
\* u32::MAX the build with overflow checks panics and the build without
\* wraps around, so both outcomes are possible.
FailureDiagnostic(error_msg, message) ==
    LET lc == parse_error_location(error_msg)
        diag == [range |-> [start |-> [line |-> lc[1], character |-> lc[2]],
                            end |-> [line |-> lc[1],
                                     character |-> U32WrappingAdd(lc[2], 50)]],
                 severity |-> "ERROR",
                 source |-> "helixql",
                 message |-> message]
    IN  IF U32AddOverflows(lc[2], 50) THEN {Ret(diag), Panic} ELSE {Ret(diag)}

\* all_diagnostics.entry(uri).or_default().push(d)
Push(all, uri, d) ==
    Insert(all, uri, IF uri \in DOMAIN all THEN Append(all[uri], d) ELSE <<d>>)

\* Mutant of OwnerIndex: a diagnostic that names no file goes to the last
\* file.
OwnerIndexLast(diag, files) ==
    LET file_name == IF IsSome(diag.location.filepath)
                     THEN Get(diag.location.filepath) ELSE ""
        hits == {i \in DOMAIN files :
                    FileName(files[i]) = file_name \/ file_name = ""}
    IN  IF hits = {} THEN 0 ELSE CHOOSE i \in hits : \A j \in hits : j <= i

\* The inner loop over files for one analyzer diagnostic: the first file
\* whose name is the diagnostic's file name, or the first file when the
\* diagnostic names none.
OwnerIndex(diag, files) ==
    LET file_name == IF IsSome(diag.location.filepath)
                     THEN Get(diag.location.filepath) ELSE ""
        hits == {i \in DOMAIN files :
                    FileName(files[i]) = file_name \/ file_name = ""}
    IN  IF hits = {} THEN 0 ELSE CHOOSE i \in hits : \A j \in hits : i <= j

RECURSIVE Attribute(_, _, _)
Attribute(diagnostics, files, all) ==
    IF diagnostics = <<>> THEN all
    ELSE LET d == Head(diagnostics)
             i == OwnerIndex(d, files)
         IN  Attribute(Tail(diagnostics), files,
                       IF i = 0 THEN all ELSE Push(all, files[i], LspDiagnostic(d)))

AnalyzerErrorPrefix == "Analyzer error: "

\* Mutant of CollectDiagnostics: all_diagnostics starts from the lists last
\* published for the members instead of an empty map.
CollectDiagnosticsCarried(files, pr, ar) ==
    LET carried == [f \in Range(files) \cap DOMAIN published |-> published[f]]
    IN  IF pr.ok
        THEN IF ar.ok THEN {Ret(Attribute(ar.diagnostics, files, carried))}
             ELSE IF files = <<>> THEN {Ret(carried)}
             ELSE {IF d.panic THEN Panic ELSE Ret(Push(carried, files[1], d.value)) :
                      d \in FailureDiagnostic(ar.err,
                                              AnalyzerErrorPrefix \o Join(ar.err))}
        ELSE IF files = <<>> THEN {Ret(carried)}
             ELSE {IF d.panic THEN Panic ELSE Ret(Push(carried, files[1], d.value)) :
                      d \in FailureDiagnostic(pr.err, Join(pr.err))}

\* Mutant of CollectDiagnostics: a failure is reported on every member.
CollectDiagnosticsOnAll(files, pr, ar) ==
    IF pr.ok
    THEN IF ar.ok THEN {Ret(Attribute(ar.diagnostics, files, EmptyMap))}
         ELSE IF files = <<>> THEN {Ret(EmptyMap)}
         ELSE {IF d.panic THEN Panic ELSE Ret([f \in Range(files) |-> <<d.value>>]) :
                  d \in FailureDiagnostic(ar.err,
                                          AnalyzerErrorPrefix \o Join(ar.err))}
    ELSE IF files = <<>> THEN {Ret(EmptyMap)}
         ELSE {IF d.panic THEN Panic ELSE Ret([f \in Range(files) |-> <<d.value>>]) :
                  d \in FailureDiagnostic(pr.err, Join(pr.err))}

\* The outcomes of the match on the parser's result: all_diagnostics at
\* its end, or the panic of the addition in a failure diagnostic.  The
\* diagnostic is built only when the listing has a first file.
CollectDiagnostics(files, pr, ar) ==
    IF pr.ok
    THEN IF ar.ok THEN {Ret(Attribute(ar.diagnostics, files, EmptyMap))}
         ELSE IF files = <<>> THEN {Ret(EmptyMap)}
         ELSE {IF d.panic THEN Panic ELSE Ret(Push(EmptyMap, files[1], d.value)) :
                  d \in FailureDiagnostic(ar.err,
                                          AnalyzerErrorPrefix \o Join(ar.err))}
    ELSE IF files = <<>> THEN {Ret(EmptyMap)}
         ELSE {IF d.panic THEN Panic ELSE Ret(Push(EmptyMap, files[1], d.value)) :
                  d \in FailureDiagnostic(pr.err, Join(pr.err))}

\* Mutant of CacheAfter: a parser failure evicts the entry.
CacheAfterEvictOnFailure(cache, dir_key, pr, ar) ==
    IF pr.ok THEN Insert(cache, dir_key, pr.source) ELSE Remove(cache, dir_key)

\* Mutant of CacheAfter: a parser failure stores an empty model.
CacheAfterClearOnFailure(cache, dir_key, pr, ar) ==
    Insert(cache, dir_key,
           IF pr.ok THEN pr.source ELSE [schema |-> <<>>, queries |-> <<>>])

\* Mutant of CacheAfter: an existing entry is kept.
CacheAfterKeepFirst(cache, dir_key, pr, ar) ==
    IF pr.ok /\ dir_key \notin DOMAIN cache
    THEN Insert(cache, dir_key, pr.source) ELSE cache

\* parsed_cache after the match: the Ok arm of the parser's result ends with
\* the insert, whatever the analyzer returned.
CacheAfter(cache, dir_key, pr, ar) ==
    IF pr.ok THEN Insert(cache, dir_key, pr.source) ELSE cache

Outcome(pr, ar) ==
    IF ~pr.ok THEN "parse_err" ELSE IF ~ar.ok THEN "analyze_err" ELSE "ok"

\* History: the model a stale hover must still answer from.
StaleAfter(st, dir_key, pr, ar) ==
    CASE Outcome(pr, ar) = "ok" -> [st EXCEPT ![dir_key] = Some(pr.source)]
      [] Outcome(pr, ar) = "analyze_err" -> [st EXCEPT ![dir_key] = NoneOpt]
      [] OTHER -> st

\* History: completed once run has or has not returned.
CompletedAfter(run, returns) ==
    IF returns /\ run.outcome = "ok"
    THEN [completed EXCEPT ![run.dir_key] = run.source] ELSE completed

(***************************************************************************)
(* analyze_workspace up to its first await: the listing, the bundle, the   *)
(* parser, the analyzer, the translation and the cache insert run without  *)
(* suspension.  The first await is in the publishing loop: with an empty   *)
(* listing the loop runs over no file and the handler returns within the   *)
(* step, no run being left in flight; response then tells what run it was. *)
(* docs is the Document Store the run reads.                               *)
(***************************************************************************)
analyze_workspace(uri, docs) ==
    \E c \in oracle :
        LET files == get_sibling_files(uri)
            \* the bundle handed to the parser, for whose result c stands
            hx_files == BuildHxFiles(files, docs)
            pr == c[1]
            ar == c[2]
        IN  \E all \in CollectDiagnostics(files, pr, ar) :
          LET run == [dir_key |-> DirKey(uri),
                      had_entry |-> DirKey(uri) \in DOMAIN parsed_cache,
                      files |-> files,
                      outcome |-> Outcome(pr, ar),
                      source |-> IF pr.ok THEN Some(pr.source) ELSE NoneOpt,
                      collected |-> all.value,
                      all_diagnostics |-> all.value,
                      next |-> 1,
                      sent |-> <<>>]
          IN
          IF all.panic
          THEN \* the panic ends the handler before the cache insert and the
               \* publishing loop
               /\ response' = Some([method |-> "analyze_workspace", uri |-> uri,
                                    result |-> Panic])
               /\ UNCHANGED <<parsed_cache, stale, runs, completed>>
          ELSE IF files = <<>>
          THEN /\ response' = Some([method |-> "analyze_workspace", uri |-> uri,
                                    result |-> Ret(run)])
               /\ parsed_cache' = CacheAfter(parsed_cache, DirKey(uri), pr, ar)
               /\ stale' = StaleAfter(stale, DirKey(uri), pr, ar)
               /\ completed' = CompletedAfter(run, TRUE)
               /\ UNCHANGED runs
          ELSE /\ Len(runs) < MaxInflight
               /\ response' = NoneOpt
               /\ parsed_cache' = CacheAfter(parsed_cache, DirKey(uri), pr, ar)
               /\ stale' = StaleAfter(stale, DirKey(uri), pr, ar)
               /\ runs' = Append(runs, run)
               /\ UNCHANGED completed

\* runs without its r-th element
Without(rs, r) == [i \in 1..(Len(rs) - 1) |-> IF i < r THEN rs[i] ELSE rs[i + 1]]

\* Mutant of PublishNext: a member without diagnostics is not published.
PublishNextSkipClean(r) ==
    /\ r \in DOMAIN runs
    /\ runs[r].files # <<>>
    /\ LET run == runs[r]
           file_uri == run.files[run.next]
           diagnostics == IF file_uri \in DOMAIN run.all_diagnostics
                          THEN run.all_diagnostics[file_uri] ELSE <<>>
       IN  /\ published' = IF diagnostics = <<>> THEN published
                           ELSE Insert(published, file_uri, diagnostics)
           /\ runs' = IF run.next = Len(run.files) THEN Without(runs, r)
                      ELSE [runs EXCEPT ![r] =
                              [run EXCEPT !.next = run.next + 1,
                                          !.all_diagnostics =
                                              Remove(run.all_diagnostics, file_uri),
                                          !.sent = Append(run.sent,
                                                          <<file_uri, diagnostics>>)]]
    /\ completed' = CompletedAfter(runs[r], runs[r].next = Len(runs[r].files))
    /\ response' = NoneOpt
    /\ UNCHANGED <<documents, parsed_cache, disk, oracle, lastText, stale, events>>

\* Mutant of PublishNext: the model is stored once more after the last
\* file is published.
PublishNextStoresModel(r) ==
    /\ r \in DOMAIN runs
    /\ runs[r].files # <<>>
    /\ LET run == runs[r]
           file_uri == run.files[run.next]
           diagnostics == IF file_uri \in DOMAIN run.all_diagnostics
                          THEN run.all_diagnostics[file_uri] ELSE <<>>
       IN  /\ published' = Insert(published, file_uri, diagnostics)
           /\ parsed_cache' = IF run.next = Len(run.files) /\ IsSome(run.source)
                               THEN Insert(parsed_cache, run.dir_key, Get(run.source))
                               ELSE parsed_cache
           /\ runs' = IF run.next = Len(run.files) THEN Without(runs, r)
                      ELSE [runs EXCEPT ![r] =
                              [run EXCEPT !.next = run.next + 1,
                                          !.all_diagnostics =
                                              Remove(run.all_diagnostics, file_uri),
                                          !.sent = Append(run.sent,
                                                          <<file_uri, diagnostics>>)]]
    /\ completed' = CompletedAfter(runs[r], runs[r].next = Len(runs[r].files))
    /\ response' = NoneOpt
    /\ UNCHANGED <<documents, disk, oracle, lastText, stale, events>>

\* Mutant of PublishNext: a run publishes only while no other run of its
\* key is in flight.
PublishNextWaits(r) ==
    /\ r \in DOMAIN runs
    /\ runs[r].files # <<>>
    /\ \A q \in DOMAIN runs : q # r => runs[q].dir_key # runs[r].dir_key
    /\ LET run == runs[r]
           file_uri == run.files[run.next]
           diagnostics == IF file_uri \in DOMAIN run.all_diagnostics
                          THEN run.all_diagnostics[file_uri] ELSE <<>>
       IN  /\ published' = Insert(published, file_uri, diagnostics)
           /\ runs' = IF run.next = Len(run.files) THEN Without(runs, r)
                      ELSE [runs EXCEPT ![r] =
                              [run EXCEPT !.next = run.next + 1,
                                          !.all_diagnostics =
                                              Remove(run.all_diagnostics, file_uri),
                                          !.sent = Append(run.sent,
                                                          <<file_uri, diagnostics>>)]]
    /\ completed' = CompletedAfter(runs[r], runs[r].next = Len(runs[r].files))
    /\ response' = NoneOpt
    /\ UNCHANGED <<documents, parsed_cache, disk, oracle, lastText, stale, events>>

\* One iteration of the publishing loop of run r: remove the file's list
\* from all_diagnostics (empty when absent) and publish it.  After the last
\* file analyze_workspace and the handler that called it return.
PublishNext(r) ==
    /\ r \in DOMAIN runs
    /\ runs[r].files # <<>>
    /\ LET run == runs[r]
           file_uri == run.files[run.next]
           diagnostics == IF file_uri \in DOMAIN run.all_diagnostics
                          THEN run.all_diagnostics[file_uri] ELSE <<>>
       IN  /\ published' = Insert(published, file_uri, diagnostics)
           /\ runs' = IF run.next = Len(run.files) THEN Without(runs, r)
                      ELSE [runs EXCEPT ![r] =
                              [run EXCEPT !.next = run.next + 1,
                                          !.all_diagnostics =
                                              Remove(run.all_diagnostics, file_uri),
                                          !.sent = Append(run.sent,
                                                          <<file_uri, diagnostics>>)]]
    /\ completed' = CompletedAfter(runs[r], runs[r].next = Len(runs[r].files))
    /\ response' = NoneOpt
    /\ UNCHANGED <<documents, parsed_cache, disk, oracle, lastText, stale, events>>

(***************************************************************************)
(* The notification handlers.                                              *)
(***************************************************************************)
did_open(uri, text) ==
    /\ events < MaxEvents
    /\ events' = events + 1
    /\ documents' = Insert(documents, uri, text)
    /\ lastText' = [lastText EXCEPT ![uri] = Some(text)]
    /\ analyze_workspace(uri, documents')
    /\ UNCHANGED <<disk, oracle, published>>

\* content_changes is the list of changes of the notification; the handler
\* reads its first element.
did_change(uri, content_changes) ==
    /\ events < MaxEvents
    /\ events' = events + 1
    /\ IF content_changes # <<>>
       THEN /\ documents' = Insert(documents, uri, Head(content_changes))
            /\ lastText' = [lastText EXCEPT ![uri] = Some(Head(content_changes))]
            /\ analyze_workspace(uri, documents')
       ELSE /\ response' = NoneOpt
            /\ UNCHANGED <<documents, lastText, parsed_cache, stale, runs, completed>>
    /\ UNCHANGED <<disk, oracle, published>>

did_save(uri) ==
    /\ events < MaxEvents
    /\ events' = events + 1
    /\ analyze_workspace(uri, documents)
    /\ UNCHANGED <<documents, lastText, disk, oracle, published>>

\* Mutant of did_close: the diagnostics of the closed document are cleared
\* with an empty list.
did_close_clears(uri) ==
    /\ events < MaxEvents
    /\ events' = events + 1
    /\ documents' = Remove(documents, uri)
    /\ published' = Insert(published, uri, <<>>)
    /\ lastText' = [lastText EXCEPT ![uri] = NoneOpt]
    /\ response' = NoneOpt
    /\ UNCHANGED <<parsed_cache, disk, oracle, runs, stale, completed>>

\* Mutant of did_close: the document stays in the store.
did_close_keep(uri) ==
    /\ events < MaxEvents
    /\ events' = events + 1
    /\ lastText' = [lastText EXCEPT ![uri] = NoneOpt]
    /\ response' = NoneOpt
    /\ UNCHANGED <<documents, parsed_cache, disk, oracle, runs, published, stale,
                   completed>>

\* Mutant of did_close: closing a document evicts its workspace's model.
did_close_evict(uri) ==
    /\ events < MaxEvents
    /\ events' = events + 1
    /\ documents' = Remove(documents, uri)
    /\ parsed_cache' = Remove(parsed_cache, DirKey(uri))
    /\ lastText' = [lastText EXCEPT ![uri] = NoneOpt]
    /\ response' = NoneOpt
    /\ UNCHANGED <<disk, oracle, runs, published, stale, completed>>

did_close(uri) ==
    /\ events < MaxEvents
    /\ events' = events + 1
    /\ documents' = Remove(documents, uri)
    /\ lastText' = [lastText EXCEPT ![uri] = NoneOpt]
    /\ response' = NoneOpt
    /\ UNCHANGED <<parsed_cache, disk, oracle, runs, published, stale, completed>>

ChangeLists == {<<>>} \cup {<<t>> : t \in ChangeTexts}

(***************************************************************************)
(* Text as the requests read it.                                           *)
(***************************************************************************)
\* str::chars
Chars(s) == SelectSeq(s, LAMBDA c : c # Cont)

\* str::is_char_boundary(idx), for idx <= len
IsCharBoundary(s, idx) == idx = Len(s) \/ s[idx + 1] # Cont

\* The characters of the model for which char::is_alphanumeric holds.
Alphanumeric ==
    {"a", "b", "c", "d", "e", "f", "g", "h", "i", "j", "k", "l", "m",
     "n", "o", "p", "q", "r", "s", "t", "u", "v", "w", "x", "y", "z"}
    \cup
    {"A", "B", "C", "D", "E", "F", "G", "H", "I", "J", "K", "L", "M",
     "N", "O", "P", "Q", "R", "S", "T", "U", "V", "W", "X", "Y", "Z"}
    \cup Range(Digits) \cup {"é"}

\* c.is_alphanumeric() || c == '_'
IsWordChar(c) == c \in Alphanumeric \/ c = "_"

\* str::lines: the pieces between line feeds, each without the carriage
\* return that precedes its line feed; no last piece after a final line feed.
RECURSIVE Lines(_)
Lines(s) ==
    IF s = <<>> THEN <<>>
    ELSE LET i == FindSub(s, <<"\n">>)
             piece == SubSeq(s, 1, i - 1)
         IN  IF i = 0 THEN <<s>>
             ELSE <<IF piece # <<>> /\ piece[Len(piece)] = "\r"
                    THEN SubSeq(piece, 1, Len(piece) - 1) ELSE piece>>
                  \o Lines(SubSeq(s, i + 1, Len(s)))


\* The first option of a sequence of options that holds a value.
RECURSIVE FirstSome(_)
FirstSome(opts) ==
    IF opts = <<>> THEN NoneOpt
    ELSE IF IsSome(Head(opts)) THEN Head(opts) ELSE FirstSome(Tail(opts))

(***************************************************************************)
(* get_word_at_position                                                    *)
(***************************************************************************)
\* while start > 0 && is_word(chars[start - 1]) { start -= 1 }
RECURSIVE ScanBack(_, _)
ScanBack(chars, start) ==
    IF start > 0 /\ IsWordChar(chars[start]) THEN ScanBack(chars, start - 1)
    ELSE start

\* while end < chars.len() && is_word(chars[end]) { end += 1 }
RECURSIVE ScanForward(_, _)
ScanForward(chars, end) ==
    IF end < Len(chars) /\ IsWordChar(chars[end + 1])
    THEN ScanForward(chars, end + 1) ELSE end

\* Mutant of get_word_at_position: no word when the character at the column
\* is not a word character.
get_word_at_position_on_word(docs, uri, position) ==
    IF uri \notin DOMAIN docs THEN Ret(NoneOpt)
    ELSE LET lines == Lines(docs[uri]) IN
    IF position.line >= Len(lines) THEN Ret(NoneOpt)
    ELSE LET line == lines[position.line + 1]
             char_idx == position.character
             chars == Chars(line)
         IN
    IF char_idx > Len(line) THEN Ret(NoneOpt)
    ELSE IF char_idx > Len(chars) THEN Panic
    ELSE LET start == ScanBack(chars, char_idx)
             end == ScanForward(chars, char_idx)
         IN  IF start = end \/ end = char_idx THEN Ret(NoneOpt)
             ELSE Ret(Some(Join(SubSeq(chars, start + 1, end))))

\* The column is compared with the length of the line in bytes and then
\* used as an index into its characters: chars[start - 1] is out of bounds
\* when the column exceeds the number of characters.
get_word_at_position(docs, uri, position) ==
    IF uri \notin DOMAIN docs THEN Ret(NoneOpt)
    ELSE LET lines == Lines(docs[uri]) IN
    IF position.line >= Len(lines) THEN Ret(NoneOpt)
    ELSE LET line == lines[position.line + 1]
             char_idx == position.character
             chars == Chars(line)
         IN
    IF char_idx > Len(line) THEN Ret(NoneOpt)
    ELSE IF char_idx > Len(chars) THEN Panic
    ELSE LET start == ScanBack(chars, char_idx)
             end == ScanForward(chars, char_idx)
         IN  IF start = end THEN Ret(NoneOpt)
             ELSE Ret(Some(Join(SubSeq(chars, start + 1, end))))

(***************************************************************************)
(* get_keyword_docs.  The table of the source; its Markdown code spans are *)
(* written with an apostrophe where the source has a grave accent, which a *)
(* string of this language cannot hold.                                    *)
(***************************************************************************)
KeywordDocs ==
    ("QUERY" :> "Defines a new query function.\n\nSyntax: 'QUERY name(param: Type) => { ... }'") @@
    ("RETURN" :> "Returns values from a query.\n\nSyntax: 'RETURN expression'") @@
    ("WHERE" :> "Filters results based on a condition.\n\nSyntax: '::WHERE(condition)'") @@
    ("FOR" :> "Iterates over a collection.\n\nSyntax: 'FOR item IN collection'") @@
    ("IN" :> "Used with FOR loops or set membership.") @@
    ("EXISTS" :> "Checks if a value exists.") @@
    ("AND" :> "Logical AND operator.") @@
    ("OR" :> "Logical OR operator.") @@
    ("NONE" :> "Represents no value or empty result.") @@
    ("DROP" :> "Removes/deletes data.") @@
    ("MIGRATION" :> "Defines a schema migration.") @@
    ("FIRST" :> "Returns the first element of a collection.") @@
    ("AS" :> "Alias or type casting operator.") @@
    ("UNIQUE" :> "Ensures uniqueness constraint.") @@
    ("N" :> "Node type definition.\n\nSyntax: 'N::TypeName { field: Type }'") @@
    ("E" :> "Edge type definition.\n\nSyntax: 'E::TypeName { From: NodeType, To: NodeType }'") @@
    ("V" :> "Vector type definition.\n\nSyntax: 'V::TypeName { ... }'") @@
    ("Out" :> "Traverse outgoing edges.\n\nSyntax: 'node::Out<EdgeType>'") @@
    ("In" :> "Traverse incoming edges.\n\nSyntax: 'node::In<EdgeType>'") @@
    ("OutE" :> "Get outgoing edge objects.\n\nSyntax: 'node::OutE<EdgeType>'") @@
    ("InE" :> "Get incoming edge objects.\n\nSyntax: 'node::InE<EdgeType>'") @@
    ("FromN" :> "Get the source node of an edge.") @@
    ("ToN" :> "Get the target node of an edge.") @@
    ("FromV" :> "Get the source vertex of a vector edge.") @@
    ("ToV" :> "Get the target vertex of a vector edge.") @@
    ("ShortestPath" :> "Find shortest path between nodes.") @@
    ("ShortestPathBFS" :> "Find shortest path using BFS algorithm.") @@
    ("ShortestPathDijkstras" :> "Find shortest path using Dijkstra's algorithm.") @@
    ("ShortestPathAStar" :> "Find shortest path using A* algorithm.") @@
    ("COUNT" :> "Count the number of elements.\n\nSyntax: 'collection::COUNT'") @@
    ("RANGE" :> "Select a range of elements.\n\nSyntax: '::RANGE(start, end)'") @@
    ("UPDATE" :> "Update node/edge properties.\n\nSyntax: '::UPDATE { field: value }'") @@
    ("ID" :> "Get the unique identifier of a node/edge.") @@
    ("PREFILTER" :> "Pre-filter results before main query execution.") @@
    ("AGGREGATE_BY" :> "Aggregate results by a field.") @@
    ("GROUP_BY" :> "Group results by a field.") @@
    ("ORDER" :> "Order results.\n\nSyntax: '::ORDER(field, Asc|Desc)'") @@
    ("GT" :> "Greater than comparison.") @@
    ("GTE" :> "Greater than or equal comparison.") @@
    ("LT" :> "Less than comparison.") @@
    ("LTE" :> "Less than or equal comparison.") @@
    ("EQ" :> "Equality comparison.") @@
    ("NEQ" :> "Not equal comparison.") @@
    ("CONTAINS" :> "Check if collection contains value.") @@
    ("IS_IN" :> "Check if value is in collection.") @@
    ("AddN" :> "Add a new node.\n\nSyntax: 'AddN<NodeType> { field: value }'") @@
    ("AddE" :> "Add a new edge.\n\nSyntax: 'AddE<EdgeType> { From: node1, To: node2 }'") @@
    ("AddV" :> "Add a new vector.\n\nSyntax: 'AddV<VectorType> { ... }'") @@
    ("BatchAddV" :> "Add multiple vectors in batch.") @@
    ("SearchV" :> "Search vectors by similarity.\n\nSyntax: 'SearchV<VectorType>(query, k)'") @@
    ("SearchBM25" :> "Search using BM25 algorithm.") @@
    ("Embed" :> "Generate embeddings for text.") @@
    ("UpsertN" :> "Insert or update a node.") @@
    ("UpsertE" :> "Insert or update an edge.") @@
    ("UpsertV" :> "Insert or update a vector.") @@
    ("RerankRRF" :> "Rerank results using Reciprocal Rank Fusion.") @@
    ("RerankMMR" :> "Rerank results using Maximal Marginal Relevance.") @@
    ("From" :> "Source node of an edge.\n\nSyntax: 'From: NodeType'") @@
    ("To" :> "Target node of an edge.\n\nSyntax: 'To: NodeType'") @@
    ("Properties" :> "Define edge properties.") @@
    ("INDEX" :> "Create an index on a field.") @@
    ("DEFAULT" :> "Set a default value for a field.") @@
    ("NOW" :> "Current timestamp function.") @@
    ("Asc" :> "Ascending order.") @@
    ("Desc" :> "Descending order.") @@
    ("ADD" :> "Addition operation.") @@
    ("SUB" :> "Subtraction operation.") @@
    ("MUL" :> "Multiplication operation.") @@
    ("DIV" :> "Division operation.") @@
    ("POW" :> "Power/exponentiation operation.") @@
    ("MOD" :> "Modulo operation.") @@
    ("ABS" :> "Absolute value.") @@
    ("SQRT" :> "Square root.") @@
    ("LN" :> "Natural logarithm.") @@
    ("LOG10" :> "Base-10 logarithm.") @@
    ("LOG" :> "Logarithm.") @@
    ("EXP" :> "Exponential function.") @@
    ("CEIL" :> "Ceiling function.") @@
    ("FLOOR" :> "Floor function.") @@
    ("ROUND" :> "Round to nearest integer.") @@
    ("SIN" :> "Sine function.") @@
    ("COS" :> "Cosine function.") @@
    ("TAN" :> "Tangent function.") @@
    ("ASIN" :> "Arc sine function.") @@
    ("ACOS" :> "Arc cosine function.") @@
    ("ATAN" :> "Arc tangent function.") @@
    ("ATAN2" :> "Two-argument arc tangent.") @@
    ("PI" :> "Mathematical constant pi.") @@
    ("MIN" :> "Minimum value.") @@
    ("MAX" :> "Maximum value.") @@
    ("SUM" :> "Sum of values.") @@
    ("AVG" :> "Average of values.") @@
    ("String" :> "String/text type.") @@
    ("Boolean" :> "Boolean (true/false) type.") @@
    ("F32" :> "32-bit floating point number.") @@
    ("F64" :> "64-bit floating point number.") @@
    ("I8" :> "8-bit signed integer.") @@
    ("I16" :> "16-bit signed integer.") @@
    ("I32" :> "32-bit signed integer.") @@
    ("I64" :> "64-bit signed integer.") @@
    ("U8" :> "8-bit unsigned integer.") @@
    ("U16" :> "16-bit unsigned integer.") @@
    ("U32" :> "32-bit unsigned integer.") @@
    ("U64" :> "64-bit unsigned integer.") @@
    ("U128" :> "128-bit unsigned integer.") @@
    ("Date" :> "Date/timestamp type.") @@
    ("Uuid" :> "UUID type.")

get_keyword_docs(word) ==
    IF word \in DOMAIN KeywordDocs THEN Some(KeywordDocs[word]) ELSE NoneOpt

(***************************************************************************)
(* get_type_hover_info and field_type_to_string                            *)
(***************************************************************************)
RECURSIVE field_type_to_string(_)
field_type_to_string(ft) ==
    CASE ft.tag = "Array" -> "[" \o field_type_to_string(ft.inner) \o "]"
      [] ft.tag = "Identifier" -> ft.name
      [] ft.tag = "Object" -> "Object"
      [] OTHER -> ft.tag

\* The Markdown code fence: three grave accents in the source.
Fence == "'''"

\* Mutant of FieldsStr: the loop stops after the first field.
FieldsStrFirstOnly(fields, indent) ==
    IF fields = <<>> THEN ""
    ELSE indent \o Head(fields).name \o ": "
         \o field_type_to_string(Head(fields).field_type) \o "\n"

\* fields_str: one line per field, indented by indent
RECURSIVE FieldsStr(_, _)
FieldsStr(fields, indent) ==
    IF fields = <<>> THEN ""
    ELSE indent \o Head(fields).name \o ": "
         \o field_type_to_string(Head(fields).field_type) \o "\n"
         \o FieldsStr(Tail(fields), indent)

NodeRendering(node, word) ==
    "**" \o word \o "** (Node)\n\n" \o Fence \o "hql\nN::" \o word \o " {\n"
    \o FieldsStr(node.fields, "    ") \o "}\n" \o Fence

EdgeRendering(edge, word) ==
    "**" \o word \o "** (Edge)\n\n" \o Fence \o "hql\nE::" \o word \o " {\n"
    \o "    From: " \o edge.from[2] \o "\n    To: " \o edge.to[2] \o "\n"
    \o (IF IsSome(edge.properties)
        THEN "    Properties {\n"
             \o FieldsStr(Get(edge.properties), "        ") \o "    }\n"
        ELSE "")
    \o "}\n" \o Fence

VectorRendering(vector, word) ==
    "**" \o word \o "** (Vector)\n\n" \o Fence \o "hql\nV::" \o word \o " {\n"
    \o FieldsStr(vector.fields, "    ") \o "}\n" \o Fence

\* The element of seq at the least of the indices hits, as an option: the
\* element at which a loop over seq that returns at the indices hits returns.
FirstAt(seq, hits) ==
    IF hits = {} THEN NoneOpt
    ELSE Some(seq[CHOOSE i \in hits : \A j \in hits : i <= j])

\* One iteration of the loop over the schema versions.
TypeHoverInSchema(schema, word) ==
    LET node == FirstAt(schema.node_schemas,
                        {i \in DOMAIN schema.node_schemas :
                            schema.node_schemas[i].name[2] = word})
        edge == FirstAt(schema.edge_schemas,
                        {i \in DOMAIN schema.edge_schemas :
                            schema.edge_schemas[i].name[2] = word})
        vector == FirstAt(schema.vector_schemas,
                          {i \in DOMAIN schema.vector_schemas :
                              schema.vector_schemas[i].name = word})
    IN  IF IsSome(node) THEN Some(NodeRendering(Get(node), word))
        ELSE IF IsSome(edge) THEN Some(EdgeRendering(Get(edge), word))
        ELSE IF IsSome(vector) THEN Some(VectorRendering(Get(vector), word))
        ELSE NoneOpt

get_type_hover_info(cache, uri, word) ==
    IF DirKey(uri) \notin DOMAIN cache THEN NoneOpt
    ELSE LET source == cache[DirKey(uri)]
         IN  FirstSome([i \in DOMAIN source.schema |->
                            TypeHoverInSchema(source.schema[i], word)])

(***************************************************************************)
(* get_variable_type, find_variable_in_statements, infer_expression_type.  *)
(* The text infer_expression_type returns holds the placeholder, which     *)
(* hover replaces by the word wherever it stands in the text.               *)
(***************************************************************************)
Placeholder == "**variable**"

\* format!("**{}**: Kind<{}>", "variable", t), or "**variable**: Kind"
Inferred(kind, type) ==
    IF IsSome(type) THEN Some(Placeholder \o ": " \o kind \o "<" \o Get(type) \o ">")
    ELSE Some(Placeholder \o ": " \o kind)

\* Mutant of infer_expression_type: only the first step of a traversal is
\* looked at.
infer_expression_type_first_step(expr) ==
    CASE expr.tag = "AddNode" -> Inferred("Node", expr.node_type)
      [] expr.tag = "AddEdge" -> Inferred("Edge", expr.edge_type)
      [] expr.tag = "AddVector" -> Inferred("Vector", expr.vector_type)
      [] expr.tag = "Traversal" ->
            IF expr.steps # <<>> /\ expr.steps[1].step.tag = "AddEdge"
            THEN Inferred("Edge", expr.steps[1].step.edge_type)
            ELSE CASE expr.start.tag = "Node" ->
                        Inferred("Node", Some(expr.start.node_type))
                   [] expr.start.tag = "Edge" ->
                        Inferred("Edge", Some(expr.start.edge_type))
                   [] expr.start.tag = "Vector" ->
                        Inferred("Vector", Some(expr.start.vector_type))
                   [] expr.start.tag = "SearchVector" ->
                        Inferred("Vector", expr.start.vector_type)
                   [] OTHER -> Some(Placeholder \o ": Traversal")
      [] expr.tag = "SearchVector" -> Inferred("Vector", expr.vector_type)
      [] expr.tag = "StringLiteral" -> Some(Placeholder \o ": String")
      [] expr.tag = "IntegerLiteral" -> Some(Placeholder \o ": Integer")
      [] expr.tag = "FloatLiteral" -> Some(Placeholder \o ": Float")
      [] expr.tag = "BooleanLiteral" -> Some(Placeholder \o ": Boolean")
      [] expr.tag = "ArrayLiteral" -> Some(Placeholder \o ": Array")
      [] OTHER -> NoneOpt

infer_expression_type(expr) ==
    CASE expr.tag = "AddNode" -> Inferred("Node", expr.node_type)
      [] expr.tag = "AddEdge" -> Inferred("Edge", expr.edge_type)
      [] expr.tag = "AddVector" -> Inferred("Vector", expr.vector_type)
      [] expr.tag = "Traversal" ->
            LET add_edge == FirstAt(expr.steps,
                                    {i \in DOMAIN expr.steps :
                                        expr.steps[i].step.tag = "AddEdge"})
            IN  IF IsSome(add_edge)
                THEN Inferred("Edge", Get(add_edge).step.edge_type)
                ELSE CASE expr.start.tag = "Node" ->
                            Inferred("Node", Some(expr.start.node_type))
                       [] expr.start.tag = "Edge" ->
                            Inferred("Edge", Some(expr.start.edge_type))
                       [] expr.start.tag = "Vector" ->
                            Inferred("Vector", Some(expr.start.vector_type))
                       [] expr.start.tag = "SearchVector" ->
                            Inferred("Vector", expr.start.vector_type)
                       [] OTHER -> Some(Placeholder \o ": Traversal")
      [] expr.tag = "SearchVector" -> Inferred("Vector", expr.vector_type)
      [] expr.tag = "StringLiteral" -> Some(Placeholder \o ": String")
      [] expr.tag = "IntegerLiteral" -> Some(Placeholder \o ": Integer")
      [] expr.tag = "FloatLiteral" -> Some(Placeholder \o ": Float")
      [] expr.tag = "BooleanLiteral" -> Some(Placeholder \o ": Boolean")
      [] expr.tag = "ArrayLiteral" -> Some(Placeholder \o ": Array")
      [] OTHER -> NoneOpt

RECURSIVE find_variable_in_statements(_, _)
find_variable_in_statements(statements, word) ==
    IF statements = <<>> THEN NoneOpt
    ELSE LET stmt == Head(statements).statement
             nested == IF stmt.tag = "ForLoop"
                       THEN find_variable_in_statements(stmt.statements, word)
                       ELSE NoneOpt
         IN  IF stmt.tag = "Assignment" /\ stmt.variable = word
             THEN infer_expression_type(stmt.value.expr)
             ELSE IF IsSome(nested) THEN nested
             ELSE find_variable_in_statements(Tail(statements), word)

\* line >= query.loc.start.line && line <= query.loc.end.line
InQuery(query, line) == line >= query.loc.start.line /\ line <= query.loc.end.line

\* The first query whose span holds the line decides, whatever it finds.
get_variable_type(cache, uri, position, word) ==
    IF DirKey(uri) \notin DOMAIN cache THEN NoneOpt
    ELSE LET source == cache[DirKey(uri)]
             line == position.line + 1
             query == FirstAt(source.queries,
                              {i \in DOMAIN source.queries :
                                  InQuery(source.queries[i], line)})
         IN  IF IsSome(query)
             THEN find_variable_in_statements(Get(query).statements, word)
             ELSE NoneOpt

(***************************************************************************)
(* get_parameter_type                                                      *)
(***************************************************************************)
ParameterRendering(param, word) ==
    "**" \o word \o "**: " \o field_type_to_string(param.param_type[2])
    \o (IF param.is_optional THEN "?" ELSE "") \o " (parameter)"

\* Every query whose span holds the line is searched, in order.
get_parameter_type(cache, uri, position, word) ==
    IF DirKey(uri) \notin DOMAIN cache THEN NoneOpt
    ELSE LET source == cache[DirKey(uri)]
             line == position.line + 1
         IN  FirstSome([i \in DOMAIN source.queries |->
                LET query == source.queries[i]
                    param == FirstAt(query.parameters,
                                     {j \in DOMAIN query.parameters :
                                         query.parameters[j].name[2] = word})
                IN  IF InQuery(query, line) /\ IsSome(param)
                    THEN Some(ParameterRendering(Get(param), word))
                    ELSE NoneOpt])

(***************************************************************************)
(* get_field_context_hover, find_context_type, lookup_field_in_schema      *)
(***************************************************************************)
\* One round of the loop over 'N', 'E', 'V': the last occurrence of the
\* pattern, when an identifier and '>' follow it.
ContextCandidate(text, pattern_char) ==
    LET start == RFindSub(text, <<pattern_char, "<">>)
        after_bracket == SubSeq(text, start + 2, Len(text))
        end == FindSub(after_bracket, <<">">>)
        type_name == SubSeq(after_bracket, 1, end - 1)
    IN  IF start # 0 /\ end # 0 /\ type_name # <<>>
           /\ \A i \in DOMAIN type_name :
                 type_name[i] = Cont \/ IsWordChar(type_name[i])
        THEN Some([start |-> start, kind |-> pattern_char,
                   name |-> Join(Chars(type_name))])
        ELSE NoneOpt

find_context_type(text) ==
    LET cands == {ContextCandidate(text, pc) : pc \in {"N", "E", "V"}}
        found == {Get(c) : c \in {x \in cands : IsSome(x)}}
    IN  IF found = {} THEN NoneOpt
        ELSE LET best_match == CHOOSE b \in found :
                                    \A o \in found : b.start >= o.start
             IN  Some(<<best_match.kind, best_match.name>>)

\* The fields every node, edge or vector has.
BuiltinField(type_kind, field_name) ==
    CASE field_name = "id" /\ type_kind \in {"N", "E", "V"} -> Some("Uuid")
      [] field_name = "label" /\ type_kind \in {"N", "E", "V"} -> Some("String")
      [] field_name \in {"from_node", "to_node"} /\ type_kind = "E" -> Some("Uuid")
      [] field_name = "data" /\ type_kind = "V" -> Some("[F64]")
      [] field_name = "score" /\ type_kind = "V" -> Some("F64")
      [] OTHER -> NoneOpt

\* The fields of every definition of the kind named type_name, in order.
RECURSIVE Flatten(_)
Flatten(seqs) == IF seqs = <<>> THEN <<>> ELSE Head(seqs) \o Flatten(Tail(seqs))

FieldsOfType(schema, type_kind, type_name) ==
    CASE type_kind = "N" ->
            Flatten([i \in DOMAIN schema.node_schemas |->
                IF schema.node_schemas[i].name[2] = type_name
                THEN schema.node_schemas[i].fields ELSE <<>>])
      [] type_kind = "E" ->
            Flatten([i \in DOMAIN schema.edge_schemas |->
                IF schema.edge_schemas[i].name[2] = type_name
                   /\ IsSome(schema.edge_schemas[i].properties)
                THEN Get(schema.edge_schemas[i].properties) ELSE <<>>])
      [] type_kind = "V" ->
            Flatten([i \in DOMAIN schema.vector_schemas |->
                IF schema.vector_schemas[i].name = type_name
                THEN schema.vector_schemas[i].fields ELSE <<>>])
      [] OTHER -> <<>>

\* Mutant of lookup_field_in_schema: the declared fields are searched
\* before the built-in ones.
lookup_field_in_schema_declared_first(cache, uri, type_kind, type_name, field_name) ==
    IF DirKey(uri) \notin DOMAIN cache THEN NoneOpt
    ELSE LET source == cache[DirKey(uri)]
             full_type_path == type_kind \o "::" \o type_name
             builtin == BuiltinField(type_kind, field_name)
             field == FirstSome([i \in DOMAIN source.schema |->
                        LET fields == FieldsOfType(source.schema[i], type_kind,
                                                   type_name)
                        IN  FirstAt(fields, {j \in DOMAIN fields :
                                                fields[j].name = field_name})])
         IN  IF IsSome(field)
             THEN Some(<<field_type_to_string(Get(field).field_type), full_type_path>>)
             ELSE IF IsSome(builtin) THEN Some(<<Get(builtin), full_type_path>>)
             ELSE NoneOpt

lookup_field_in_schema(cache, uri, type_kind, type_name, field_name) ==
    IF DirKey(uri) \notin DOMAIN cache THEN NoneOpt
    ELSE LET source == cache[DirKey(uri)]
             full_type_path == type_kind \o "::" \o type_name
             builtin == BuiltinField(type_kind, field_name)
             field == FirstSome([i \in DOMAIN source.schema |->
                        LET fields == FieldsOfType(source.schema[i], type_kind,
                                                   type_name)
                        IN  FirstAt(fields, {j \in DOMAIN fields :
                                                fields[j].name = field_name})])
         IN  IF IsSome(builtin) THEN Some(<<Get(builtin), full_type_path>>)
             ELSE IF IsSome(field)
             THEN Some(<<field_type_to_string(Get(field).field_type), full_type_path>>)
             ELSE NoneOpt

\* Mutant of get_field_context_hover: a closing brace after the opener
\* does not end the block.
get_field_context_hover_unclosed(docs, cache, uri, position, field_name) ==
    IF uri \notin DOMAIN docs THEN Ret(NoneOpt)
    ELSE LET lines == Lines(docs[uri]) IN
    IF position.line >= Len(lines) THEN Ret(NoneOpt)
    ELSE LET line == lines[position.line + 1]
             char_idx == position.character
         IN
    IF char_idx > Len(line) THEN Ret(NoneOpt)
    ELSE IF ~IsCharBoundary(line, char_idx) THEN Panic
    ELSE LET before_cursor == SubSeq(line, 1, char_idx)
             brace == RFindSub(before_cursor, <<":", ":", "{">>)
             search_area == SubSeq(before_cursor, 1, brace - 1)
             context == find_context_type(search_area)
             found == lookup_field_in_schema(cache, uri, Get(context)[1],
                                             Get(context)[2], field_name)
         IN  IF brace = 0 THEN Ret(NoneOpt)
             ELSE IF ~IsSome(context) THEN Ret(NoneOpt)
             ELSE IF ~IsSome(found) THEN Ret(NoneOpt)
             ELSE Ret(Some("**" \o field_name \o "**: " \o Get(found)[1]
                           \o " (from " \o Get(found)[2] \o ")"))

\* &line[..char_idx] panics when the column, a byte index, is not on a
\* character boundary.
get_field_context_hover(docs, cache, uri, position, field_name) ==
    IF uri \notin DOMAIN docs THEN Ret(NoneOpt)
    ELSE LET lines == Lines(docs[uri]) IN
    IF position.line >= Len(lines) THEN Ret(NoneOpt)
    ELSE LET line == lines[position.line + 1]
             char_idx == position.character
         IN
    IF char_idx > Len(line) THEN Ret(NoneOpt)
    ELSE IF ~IsCharBoundary(line, char_idx) THEN Panic
    ELSE LET before_cursor == SubSeq(line, 1, char_idx)
             brace == RFindSub(before_cursor, <<":", ":", "{">>)
             between == SubSeq(before_cursor, brace + 3, Len(before_cursor))
             search_area == SubSeq(before_cursor, 1, brace - 1)
             context == find_context_type(search_area)
             found == lookup_field_in_schema(cache, uri, Get(context)[1],
                                             Get(context)[2], field_name)
         IN  IF brace = 0 \/ "}" \in Range(between) THEN Ret(NoneOpt)
             ELSE IF ~IsSome(context) THEN Ret(NoneOpt)
             ELSE IF ~IsSome(found) THEN Ret(NoneOpt)
             ELSE Ret(Some("**" \o field_name \o "**: " \o Get(found)[1]
                           \o " (from " \o Get(found)[2] \o ")"))

(***************************************************************************)
(* hover                                                                   *)
(***************************************************************************)
\* Hover { contents: Markup(MarkupContent { kind: Markdown, value }), range: None }
Hover(value) ==
    [contents |-> [kind |-> "markdown", value |-> value], range |-> NoneOpt]

\* str::replace: every occurrence of from in s, found from the left and
\* not overlapping, is replaced by to.
RECURSIVE Replace(_, _, _)
Replace(s, from, to) ==
    IF Len(s) < Len(from) THEN s
    ELSE IF SubSeq(s, 1, Len(from)) = from
    THEN to \o Replace(SubSeq(s, Len(from) + 1, Len(s)), from, to)
    ELSE SubSeq(s, 1, 1) \o Replace(SubSeq(s, 2, Len(s)), from, to)

\* Mutant of HoverAnswer: the contextual field type is tried before the
\* parameter type.
HoverAnswerFieldFirst(docs, cache, uri, position) ==
    LET w == get_word_at_position(docs, uri, position) IN
    IF w.panic THEN Panic
    ELSE IF ~IsSome(w.value) THEN Ret(NoneOpt)
    ELSE LET word == Get(w.value)
             keyword == get_keyword_docs(word)
             type_info == get_type_hover_info(cache, uri, word)
             var_type == get_variable_type(cache, uri, position, word)
             param_info == get_parameter_type(cache, uri, position, word)
             field_info == get_field_context_hover(docs, cache, uri, position, word)
         IN  IF IsSome(keyword)
             THEN Ret(Some(Hover("**" \o word \o "**\n\n" \o Get(keyword))))
             ELSE IF IsSome(type_info) THEN Ret(Some(Hover(Get(type_info))))
             ELSE IF IsSome(var_type)
             THEN Ret(Some(Hover(Replace(Get(var_type), Placeholder,
                                         "**" \o word \o "**"))))
             ELSE IF field_info.panic THEN Panic
             ELSE IF IsSome(field_info.value)
             THEN Ret(Some(Hover(Get(field_info.value))))
             ELSE IF IsSome(param_info) THEN Ret(Some(Hover(Get(param_info))))
             ELSE Ret(NoneOpt)

\* What hover returns for the Document Store docs and the Workspace Cache
\* cache.
HoverAnswer(docs, cache, uri, position) ==
    LET w == get_word_at_position(docs, uri, position) IN
    IF w.panic THEN Panic
    ELSE IF ~IsSome(w.value) THEN Ret(NoneOpt)
    ELSE LET word == Get(w.value)
             keyword == get_keyword_docs(word)
             type_info == get_type_hover_info(cache, uri, word)
             var_type == get_variable_type(cache, uri, position, word)
             param_info == get_parameter_type(cache, uri, position, word)
             field_info == get_field_context_hover(docs, cache, uri, position, word)
         IN  IF IsSome(keyword)
             THEN Ret(Some(Hover("**" \o word \o "**\n\n" \o Get(keyword))))
             ELSE IF IsSome(type_info) THEN Ret(Some(Hover(Get(type_info))))
             ELSE IF IsSome(var_type)
             THEN Ret(Some(Hover(Replace(Get(var_type), Placeholder,
                                         "**" \o word \o "**"))))
             ELSE IF IsSome(param_info) THEN Ret(Some(Hover(Get(param_info))))
             ELSE IF field_info.panic THEN Panic
             ELSE IF IsSome(field_info.value)
             THEN Ret(Some(Hover(Get(field_info.value))))
             ELSE Ret(NoneOpt)

\* The hover request: the answer is computed from the Document Store and the
\* Workspace Cache as they are; the handler does not suspend.
hover(uri, position) ==
    /\ events < MaxEvents
    /\ events' = events + 1
    /\ response' = Some([method |-> "hover", uri |-> uri, position |-> position,
                         result |-> HoverAnswer(documents, parsed_cache, uri, position)])
    /\ UNCHANGED <<documents, parsed_cache, disk, oracle, runs, published, lastText,
                   stale, completed>>

(***************************************************************************)
(* find_definition and goto_definition                                     *)
(***************************************************************************)
\* Path::new(&dir_key).join(file_name), as a URL
JoinPath(dir_key, file_name) == [dir |-> dir_key, file |-> file_name]

\* Mutant of Location: the range keeps the parser's 1-based lines and
\* columns.
LocationOneBased(dir_key, loc) ==
    [uri |-> JoinPath(dir_key, IF IsSome(loc.filepath) THEN Get(loc.filepath) ELSE ""),
     range |->
        [start |-> [line |-> U32(loc.start.line),
                    character |-> U32(loc.start.column)],
         end |-> [line |-> U32(loc.end.line),
                  character |-> U32(loc.end.column)]]]

\* Location { uri, range } of a definition whose name is at loc
Location(dir_key, loc) ==
    [uri |-> JoinPath(dir_key, IF IsSome(loc.filepath) THEN Get(loc.filepath) ELSE ""),
     range |->
        [start |-> [line |-> U32(SaturatingSub1(loc.start.line)),
                    character |-> U32(SaturatingSub1(loc.start.column))],
         end |-> [line |-> U32(SaturatingSub1(loc.end.line)),
                  character |-> U32(SaturatingSub1(loc.end.column))]]]

\* One round of the loop over the schema versions: the first node named
\* word, else the first edge, else the first vector.
DefinitionInSchema(schema, dir_key, word) ==
    LET node == FirstAt(schema.node_schemas,
                        {i \in DOMAIN schema.node_schemas :
                            schema.node_schemas[i].name[2] = word})
        edge == FirstAt(schema.edge_schemas,
                        {i \in DOMAIN schema.edge_schemas :
                            schema.edge_schemas[i].name[2] = word})
        vector == FirstAt(schema.vector_schemas,
                          {i \in DOMAIN schema.vector_schemas :
                              schema.vector_schemas[i].name = word})
    IN  IF IsSome(node) THEN Some(Location(dir_key, Get(node).name[1]))
        ELSE IF IsSome(edge) THEN Some(Location(dir_key, Get(edge).name[1]))
        ELSE IF IsSome(vector) THEN Some(Location(dir_key, Get(vector).loc))
        ELSE NoneOpt

find_definition(cache, uri, word) ==
    IF DirKey(uri) \notin DOMAIN cache THEN NoneOpt
    ELSE LET source == cache[DirKey(uri)]
         IN  FirstSome([i \in DOMAIN source.schema |->
                 DefinitionInSchema(source.schema[i], DirKey(uri), word)])

\* What goto_definition returns.
DefinitionAnswer(docs, cache, uri, position) ==
    LET w == get_word_at_position(docs, uri, position) IN
    IF w.panic THEN Panic
    ELSE IF ~IsSome(w.value) THEN Ret(NoneOpt)
    ELSE LET location == find_definition(cache, uri, Get(w.value))
         IN  IF IsSome(location) THEN Ret(Some([scalar |-> Get(location)]))
             ELSE Ret(NoneOpt)

goto_definition(uri, position) ==
    /\ events < MaxEvents
    /\ events' = events + 1
    /\ response' = Some([method |-> "definition", uri |-> uri, position |-> position,
                         result |-> DefinitionAnswer(documents, parsed_cache, uri,
                                                     position)])
    /\ UNCHANGED <<documents, parsed_cache, disk, oracle, runs, published, lastText,
                   stale, completed>>

(***************************************************************************)
(* get_completions and completion                                          *)
(***************************************************************************)
CompletionItem(label, kind, detail) ==
    [label |-> label, kind |-> kind, detail |-> detail]

\* str::ends_with and str::contains
EndsWith(s, pat) ==
    Len(s) >= Len(pat) /\ SubSeq(s, Len(s) - Len(pat) + 1, Len(s)) = pat
Contains(s, pat) == FindSub(s, pat) # 0

\* Mutant of AfterBracket: a closing bracket in the prefix is not looked for.
AfterBracketUnclosed(prefix, pattern_char) ==
    Contains(prefix, <<pattern_char, "<">>)

\* prefix.ends_with("X<") || prefix.contains("X<") && !prefix.contains('>')
AfterBracket(prefix, pattern_char) ==
    \/ EndsWith(prefix, <<pattern_char, "<">>)
    \/ Contains(prefix, <<pattern_char, "<">>) /\ ~Contains(prefix, <<">">>)

Traversals ==
    <<CompletionItem("Out", "METHOD", "Traverse outgoing edges"),
      CompletionItem("In", "METHOD", "Traverse incoming edges"),
      CompletionItem("OutE", "METHOD", "Get outgoing edge objects"),
      CompletionItem("InE", "METHOD", "Get incoming edge objects"),
      CompletionItem("FromN", "METHOD", "Get source node"),
      CompletionItem("ToN", "METHOD", "Get target node"),
      CompletionItem("FromV", "METHOD", "Get source vertex"),
      CompletionItem("ToV", "METHOD", "Get target vertex"),
      CompletionItem("From", "METHOD", "Edge source (in AddE chain)"),
      CompletionItem("To", "METHOD", "Edge target (in AddE chain)"),
      CompletionItem("WHERE", "METHOD", "Filter by condition"),
      CompletionItem("COUNT", "METHOD", "Count elements"),
      CompletionItem("RANGE", "METHOD", "Select range"),
      CompletionItem("UPDATE", "METHOD", "Update properties"),
      CompletionItem("ID", "METHOD", "Get identifier"),
      CompletionItem("GT", "METHOD", "Greater than"),
      CompletionItem("GTE", "METHOD", "Greater than or equal"),
      CompletionItem("LT", "METHOD", "Less than"),
      CompletionItem("LTE", "METHOD", "Less than or equal"),
      CompletionItem("EQ", "METHOD", "Equal"),
      CompletionItem("NEQ", "METHOD", "Not equal"),
      CompletionItem("CONTAINS", "METHOD", "Contains value"),
      CompletionItem("IS_IN", "METHOD", "Value in set"),
      CompletionItem("PREFILTER", "METHOD", "Pre-filter results"),
      CompletionItem("AGGREGATE_BY", "METHOD", "Aggregate by field"),
      CompletionItem("GROUP_BY", "METHOD", "Group by field"),
      CompletionItem("ORDER", "METHOD", "Order results"),
      CompletionItem("ShortestPath", "METHOD", "Find shortest path"),
      CompletionItem("ShortestPathBFS", "METHOD", "Shortest path (BFS)"),
      CompletionItem("ShortestPathDijkstras", "METHOD", "Shortest path (Dijkstra)"),
      CompletionItem("ShortestPathAStar", "METHOD", "Shortest path (A*)")>>

Keywords ==
    <<CompletionItem("QUERY", "KEYWORD", "Define a query"),
      CompletionItem("RETURN", "KEYWORD", "Return values"),
      CompletionItem("WHERE", "KEYWORD", "Filter condition"),
      CompletionItem("FOR", "KEYWORD", "Loop iteration"),
      CompletionItem("IN", "KEYWORD", "In operator"),
      CompletionItem("AND", "KEYWORD", "Logical AND"),
      CompletionItem("OR", "KEYWORD", "Logical OR"),
      CompletionItem("EXISTS", "KEYWORD", "Check existence"),
      CompletionItem("NONE", "KEYWORD", "No value"),
      CompletionItem("DROP", "KEYWORD", "Delete data"),
      CompletionItem("MIGRATION", "KEYWORD", "Schema migration"),
      CompletionItem("FIRST", "KEYWORD", "First element"),
      CompletionItem("AS", "KEYWORD", "Alias/cast"),
      CompletionItem("UNIQUE", "KEYWORD", "Uniqueness constraint"),
      CompletionItem("AddN", "FUNCTION", "Add node"),
      CompletionItem("AddE", "FUNCTION", "Add edge"),
      CompletionItem("AddV", "FUNCTION", "Add vector"),
      CompletionItem("BatchAddV", "FUNCTION", "Batch add vectors"),
      CompletionItem("SearchV", "FUNCTION", "Search vectors"),
      CompletionItem("SearchBM25", "FUNCTION", "BM25 search"),
      CompletionItem("Embed", "FUNCTION", "Generate embeddings"),
      CompletionItem("UpsertN", "FUNCTION", "Upsert node"),
      CompletionItem("UpsertE", "FUNCTION", "Upsert edge"),
      CompletionItem("UpsertV", "FUNCTION", "Upsert vector"),
      CompletionItem("RerankRRF", "FUNCTION", "Rerank (RRF)"),
      CompletionItem("RerankMMR", "FUNCTION", "Rerank (MMR)")>>

\* The items for the definitions of one kind, over the schema versions.
TypeItems(source, pattern_char) ==
    Flatten([i \in DOMAIN source.schema |->
        CASE pattern_char = "N" ->
                [j \in DOMAIN source.schema[i].node_schemas |->
                    CompletionItem(source.schema[i].node_schemas[j].name[2],
                                   "CLASS", "Node type")]
          [] pattern_char = "E" ->
                [j \in DOMAIN source.schema[i].edge_schemas |->
                    CompletionItem(source.schema[i].edge_schemas[j].name[2],
                                   "CLASS", "Edge type")]
          [] pattern_char = "V" ->
                [j \in DOMAIN source.schema[i].vector_schemas |->
                    CompletionItem(source.schema[i].vector_schemas[j].name,
                                   "CLASS", "Vector type")]])

\* The items for a prefix of the line.
CompletionsFor(cache, uri, prefix) ==
    LET cached == DirKey(uri) \in DOMAIN cache
        source == cache[DirKey(uri)]
    IN  IF cached /\ AfterBracket(prefix, "N") THEN TypeItems(source, "N")
        ELSE IF cached /\ AfterBracket(prefix, "E") THEN TypeItems(source, "E")
        ELSE IF cached /\ AfterBracket(prefix, "V") THEN TypeItems(source, "V")
        ELSE IF EndsWith(prefix, <<":", ":">>) THEN Traversals
        ELSE Keywords

\* &line[..char_idx] panics when the column, a byte index, is not on a
\* character boundary; a column beyond the line takes the whole line.
get_completions(docs, cache, uri, position) ==
    IF uri \notin DOMAIN docs THEN Ret(<<>>)
    ELSE LET lines == Lines(docs[uri]) IN
    IF position.line >= Len(lines) THEN Ret(<<>>)
    ELSE LET line == lines[position.line + 1]
             char_idx == position.character
         IN
    IF char_idx > Len(line) THEN Ret(CompletionsFor(cache, uri, line))
    ELSE IF ~IsCharBoundary(line, char_idx) THEN Panic
    ELSE Ret(CompletionsFor(cache, uri, SubSeq(line, 1, char_idx)))

\* Mutant of CompletionAnswer: an empty list of items is returned as an
\* empty array.
CompletionAnswerEmptyArray(docs, cache, uri, position) ==
    LET items == get_completions(docs, cache, uri, position) IN
    IF items.panic THEN Panic
    ELSE Ret(Some([array |-> items.value]))

\* What completion returns.
CompletionAnswer(docs, cache, uri, position) ==
    LET items == get_completions(docs, cache, uri, position) IN
    IF items.panic THEN Panic
    ELSE IF items.value = <<>> THEN Ret(NoneOpt)
    ELSE Ret(Some([array |-> items.value]))

\* Mutant of completion: the document is looked up with an entry that is
\* created, empty, when the store has none.
completion_or_default(uri, position) ==
    /\ events < MaxEvents
    /\ events' = events + 1
    /\ documents' = IF uri \in DOMAIN documents THEN documents
                    ELSE Insert(documents, uri, <<>>)
    /\ response' = Some([method |-> "completion", uri |-> uri, position |-> position,
                         result |-> CompletionAnswer(documents', parsed_cache, uri,
                                                     position)])
    /\ UNCHANGED <<parsed_cache, disk, oracle, runs, published, lastText, stale,
                   completed>>

completion(uri, position) ==
    /\ events < MaxEvents
    /\ events' = events + 1
    /\ response' = Some([method |-> "completion", uri |-> uri, position |-> position,
                         result |-> CompletionAnswer(documents, parsed_cache, uri,
                                                     position)])
    /\ UNCHANGED <<documents, parsed_cache, disk, oracle, runs, published, lastText,
                   stale, completed>>

\* The cursor positions of the requests: in a word, beyond the end of the
\* line, on a line the text does not have.
Positions ==
    {[line |-> 0, character |-> 3], [line |-> 0, character |-> 12],
     [line |-> 0, character |-> 20], [line |-> 1, character |-> 0]}

(***************************************************************************)
(* The specification.                                                      *)
(***************************************************************************)
Init ==
    /\ documents = EmptyMap
    /\ parsed_cache = EmptyMap
    /\ disk \in DiskInits
    /\ oracle = Collaborators
    /\ runs = <<>>
    /\ published = EmptyMap
    /\ response = NoneOpt
    /\ lastText = [u \in Uris |-> NoneOpt]
    /\ stale = [k \in Keys |-> NoneOpt]
    /\ completed = [k \in Keys |-> NoneOpt]
    /\ events = 0

Next ==
    \/ \E uri \in EditorUris, text \in OpenTexts : did_open(uri, text)
    \/ \E uri \in EditorUris, cs \in ChangeLists : did_change(uri, cs)
    \/ \E uri \in EditorUris : did_save(uri)
    \/ \E uri \in EditorUris : did_close(uri)
    \/ \E uri \in EditorUris, position \in Positions : hover(uri, position)
    \/ \E r \in 1..MaxInflight : PublishNext(r)

Spec == Init /\ [][Next]_vars

(***************************************************************************)
(* The specification of hover alone: one open document and a cached model  *)
(* drawn from HoverTexts and HoverSources, or no model, and hover requests *)
(* at every position up to MaxLine and MaxColumn.                          *)
(***************************************************************************)
MaxLine == 1
MaxColumn == 36
HoverPositions ==
    {[line |-> l, character |-> c] : l \in 0..MaxLine, c \in 0..MaxColumn}

InitHover ==
    /\ \E text \in HoverTexts :
          /\ documents = (PA :> text)
          /\ lastText = [u \in Uris |-> IF u = PA THEN Some(text) ELSE NoneOpt]
    /\ parsed_cache \in {EmptyMap} \cup {(DirKey(PA) :> src) : src \in HoverSources}
    /\ disk = DiskBare
    /\ oracle = Collaborators
    /\ runs = <<>>
    /\ published = EmptyMap
    /\ response = NoneOpt
    /\ stale = [k \in Keys |-> NoneOpt]
    /\ completed = [k \in Keys |-> NoneOpt]
    /\ events = 0

NextHover ==
    \E position \in HoverPositions : hover(PA, position)

SpecHover == InitHover /\ [][NextHover]_vars

(***************************************************************************)
(* The specification of the three requests: the documents and models of   *)
(* InitHover, requests at every column up to MaxRequestColumn of the first *)
(* two lines, and the close of the document.                               *)
(***************************************************************************)
MaxRequestColumn == 18
RequestPositions ==
    {[line |-> l, character |-> c] : l \in {0, 1}, c \in 0..MaxRequestColumn}

NextRequests ==
    \/ \E position \in RequestPositions : hover(PA, position)
    \/ \E position \in RequestPositions : goto_definition(PA, position)
    \/ \E position \in RequestPositions : completion(PA, position)
    \/ did_close(PA)

SpecRequests == InitHover /\ [][NextRequests]_vars

(***************************************************************************)
(* The specification of go-to-definition: one open document drawn from     *)
(* HoverTexts, no model or a cached model with one schema version, with    *)
(* two versions that define the same node, or with an edge and vectors of  *)
(* one name, and requests at every position of RequestPositions.           *)
(***************************************************************************)
InitDefinition ==
    /\ \E text \in HoverTexts :
          /\ documents = (PA :> text)
          /\ lastText = [u \in Uris |-> IF u = PA THEN Some(text) ELSE NoneOpt]
    /\ parsed_cache \in {EmptyMap}
                         \cup {(DirKey(PA) :> src) :
                                  src \in {SrcUser, SrcRich, SrcVersions, SrcShadow}}
    /\ disk = DiskBare
    /\ oracle = Collaborators
    /\ runs = <<>>
    /\ published = EmptyMap
    /\ response = NoneOpt
    /\ stale = [k \in Keys |-> NoneOpt]
    /\ completed = [k \in Keys |-> NoneOpt]
    /\ events = 0

NextDefinition ==
    \E position \in RequestPositions : goto_definition(PA, position)

SpecDefinition == InitDefinition /\ [][NextDefinition]_vars

(***************************************************************************)
(* The specification of completion: one open document whose two lines hold *)
(* every kind of prefix, a cached model without edges and vectors, with    *)
(* all three kinds, with two schema versions, or no model, and the         *)
(* requests of NextRequests.                                               *)
(***************************************************************************)
CompletionText ==
    <<"V", "<", "D", "o", "c", ">", ":", ":", "\n",
      "E", "<", "F", " ", "N", "<", "U", ":", ":">>

InitCompletion ==
    /\ documents = (PA :> CompletionText)
    /\ lastText = [u \in Uris |-> IF u = PA THEN Some(CompletionText) ELSE NoneOpt]
    /\ parsed_cache \in {EmptyMap}
                         \cup {(DirKey(PA) :> src) : src \in {SrcUser, SrcRich, SrcVersions}}
    /\ disk = DiskBare
    /\ oracle = Collaborators
    /\ runs = <<>>
    /\ published = EmptyMap
    /\ response = NoneOpt
    /\ stale = [k \in Keys |-> NoneOpt]
    /\ completed = [k \in Keys |-> NoneOpt]
    /\ events = 0

SpecCompletion == InitCompletion /\ [][NextRequests]_vars

(***************************************************************************)
(* The specification of hover on the model of a bundle: one open document  *)
(* of a.hx and a cached model with queries of two files or with two schema *)
(* versions, and hover requests at every position up to MaxLine and        *)
(* MaxColumn.                                                              *)
(***************************************************************************)
InitModels ==
    /\ \E text \in {HoverText1, HoverText2} :
          /\ documents = (PA :> text)
          /\ lastText = [u \in Uris |-> IF u = PA THEN Some(text) ELSE NoneOpt]
    /\ parsed_cache \in {(DirKey(PA) :> src) : src \in {SrcSiblings, SrcVersions, SrcRich}}
    /\ disk = DiskBare
    /\ oracle = Collaborators
    /\ runs = <<>>
    /\ published = EmptyMap
    /\ response = NoneOpt
    /\ stale = [k \in Keys |-> NoneOpt]
    /\ completed = [k \in Keys |-> NoneOpt]
    /\ events = 0

SpecModels == InitModels /\ [][NextHover]_vars

(***************************************************************************)
(* The specification with fairness: every handler of the server, on two    *)
(* identifiers.  publish_diagnostics().await is the only point where a     *)
(* handler is suspended; it holds no entry of the Document Store or the    *)
(* Workspace Cache there, and the send completes once the transport takes  *)
(* the message, so a run that can publish or return eventually does.       *)
(***************************************************************************)
FairUris == {PA, PD}
WordPosition == [line |-> 0, character |-> 3]

NextFair ==
    \/ \E uri \in FairUris : did_open(uri, TextA)
    \/ \E uri \in FairUris, cs \in {<<>>, <<TextB>>} : did_change(uri, cs)
    \/ \E uri \in FairUris : did_save(uri)
    \/ \E uri \in FairUris : did_close(uri)
    \/ \E uri \in FairUris : hover(uri, WordPosition)
    \/ \E uri \in FairUris : goto_definition(uri, WordPosition)
    \/ \E uri \in FairUris : completion(uri, WordPosition)
    \/ \E r \in 1..MaxInflight : PublishNext(r)

SpecFair ==
    /\ Init
    /\ [][NextFair]_vars
    /\ \A r \in 1..MaxInflight : WF_vars(PublishNext(r))

(***************************************************************************)
(* The specification of get_word_at_position alone: one open document      *)
(* whose text is any sequence of up to MaxWordLen characters of            *)
(* WordAlphabet, and the function applied on its first three lines at      *)
(* every column a line can have, and one beyond.                           *)
(***************************************************************************)
MaxWordLen == 4
WordAlphabet == {"a", "_", " ", "\n"}
SeqsUpTo(S, n) == UNION {[1..k -> S] : k \in 0..n}
WordTexts == SeqsUpTo(WordAlphabet, MaxWordLen)
WordPositions ==
    {[line |-> l, character |-> c] : l \in 0..2, c \in 0..(MaxWordLen + 1)}

InitWord ==
    /\ \E text \in WordTexts :
          /\ documents = (PA :> text)
          /\ lastText = [u \in Uris |-> IF u = PA THEN Some(text) ELSE NoneOpt]
    /\ parsed_cache = EmptyMap
    /\ disk = DiskBare
    /\ oracle = Collaborators
    /\ runs = <<>>
    /\ published = EmptyMap
    /\ response = NoneOpt
    /\ stale = [k \in Keys |-> NoneOpt]
    /\ completed = [k \in Keys |-> NoneOpt]
    /\ events = 0

\* A call of get_word_at_position, as hover and goto_definition make it.
WordAt(uri, position) ==
    /\ events < MaxEvents
    /\ events' = events + 1
    /\ response' = Some([method |-> "get_word_at_position", uri |-> uri,
                         position |-> position,
                         result |-> get_word_at_position(documents, uri, position)])
    /\ UNCHANGED <<documents, parsed_cache, disk, oracle, runs, published, lastText,
                   stale, completed>>

NextWord == \E position \in WordPositions : WordAt(PA, position)

SpecWord == InitWord /\ [][NextWord]_vars

(***************************************************************************)
(* The specification of find_context_type alone: the function applied to   *)
(* any text of up to MaxContextLen characters of ContextAlphabet, held as  *)
(* the open document.                                                      *)
(***************************************************************************)
MaxContextLen == 6
ContextAlphabet == {"N", "E", "<", ">", "a"}
ContextTexts == SeqsUpTo(ContextAlphabet, MaxContextLen)

InitContext ==
    /\ \E text \in ContextTexts :
          /\ documents = (PA :> text)
          /\ lastText = [u \in Uris |-> IF u = PA THEN Some(text) ELSE NoneOpt]
    /\ parsed_cache = EmptyMap
    /\ disk = DiskBare
    /\ oracle = Collaborators
    /\ runs = <<>>
    /\ published = EmptyMap
    /\ response = NoneOpt
    /\ stale = [k \in Keys |-> NoneOpt]
    /\ completed = [k \in Keys |-> NoneOpt]
    /\ events = 0

\* A call of find_context_type on the text of the document.
ContextOf(uri) ==
    /\ events < MaxEvents
    /\ events' = events + 1
    /\ response' = Some([method |-> "find_context_type", uri |-> uri,
                         result |-> find_context_type(documents[uri])])
    /\ UNCHANGED <<documents, parsed_cache, disk, oracle, runs, published, lastText,
                   stale, completed>>

NextContext == ContextOf(PA)

SpecContext == InitContext /\ [][NextContext]_vars

(***************************************************************************)
(* The specification of the diagnostic translation: saves of a file of    *)
(* each directory, with an analyzer that returns the diagnostics of        *)
(* DiagCollaborators or fails with an error text whose column overflows.   *)
(***************************************************************************)
InitDiag ==
    /\ documents = EmptyMap
    /\ parsed_cache = EmptyMap
    /\ disk \in DiskInits
    /\ oracle = DiagCollaborators \cup {<<ParseOk(SrcPost), AnalyzeErr(ErrOverflow)>>}
    /\ runs = <<>>
    /\ published = EmptyMap
    /\ response = NoneOpt
    /\ lastText = [u \in Uris |-> NoneOpt]
    /\ stale = [k \in Keys |-> NoneOpt]
    /\ completed = [k \in Keys |-> NoneOpt]
    /\ events = 0

NextDiag ==
    \/ \E uri \in {PA, PD} : did_save(uri)
    \/ \E r \in 1..MaxInflight : PublishNext(r)

SpecDiag == InitDiag /\ [][NextDiag]_vars

(***************************************************************************)
(* The specification of repeated runs: the file system and the Document    *)
(* Store stay as they are and the parser and the analyzer return the same  *)
(* result in every run, one pair of Collaborators or DiagCollaborators;    *)
(* the runs are those of saves, which change no text.                      *)
(***************************************************************************)
InitRepeat ==
    /\ documents = EmptyMap
    /\ parsed_cache = EmptyMap
    /\ disk \in DiskInits
    /\ oracle \in {{c} : c \in Collaborators \cup DiagCollaborators}
    /\ runs = <<>>
    /\ published = EmptyMap
    /\ response = NoneOpt
    /\ lastText = [u \in Uris |-> NoneOpt]
    /\ stale = [k \in Keys |-> NoneOpt]
    /\ completed = [k \in Keys |-> NoneOpt]
    /\ events = 0

NextRepeat ==
    \/ \E uri \in EditorUris : did_save(uri)
    \/ \E r \in 1..MaxInflight : PublishNext(r)

SpecRepeat == InitRepeat /\ [][NextRepeat]_vars

(***************************************************************************)
(* The specification of get_field_context_hover alone: the function        *)
(* applied, for the field name, at any column to a document of one line    *)
(* put together from up to MaxFieldPieces of FieldPieces, with the model   *)
(* SrcUser cached for the directory.                                       *)
(***************************************************************************)
MaxFieldPieces == 3
FieldPieces ==
    {<<"N", "<", "U", "s", "e", "r", ">">>, <<":", ":", "{">>, <<"}">>,
     <<"n", "a", "m", "e">>, <<":">>, <<"{">>}
FieldTexts == {Flatten(ps) : ps \in SeqsUpTo(FieldPieces, MaxFieldPieces)}
FieldPositions ==
    {[line |-> 0, character |-> c] : c \in 0..(7 * MaxFieldPieces + 1)}

InitField ==
    /\ \E text \in FieldTexts :
          /\ documents = (PA :> text)
          /\ lastText = [u \in Uris |-> IF u = PA THEN Some(text) ELSE NoneOpt]
    /\ parsed_cache = ("/d1" :> SrcUser)
    /\ disk = DiskBare
    /\ oracle = Collaborators
    /\ runs = <<>>
    /\ published = EmptyMap
    /\ response = NoneOpt
    /\ stale = [k \in Keys |-> NoneOpt]
    /\ completed = [k \in Keys |-> NoneOpt]
    /\ events = 0

\* A call of get_field_context_hover, as hover makes it for the word.
FieldContextAt(uri, position, field_name) ==
    /\ events < MaxEvents
    /\ events' = events + 1
    /\ response' = Some([method |-> "get_field_context_hover", uri |-> uri,
                         position |-> position, field_name |-> field_name,
                         result |-> get_field_context_hover(documents, parsed_cache,
                                                           uri, position, field_name)])
    /\ UNCHANGED <<documents, parsed_cache, disk, oracle, runs, published, lastText,
                   stale, completed>>

NextField == \E position \in FieldPositions : FieldContextAt(PA, position, "name")

SpecField == InitField /\ [][NextField]_vars

(***************************************************************************)
(* The specification of type inference for traversals: hover on the        *)
(* variable u of a query that assigns to u a traversal with any start node *)
(* of StartNodes and up to MaxSteps steps of Steps.                        *)
(***************************************************************************)
MaxSteps == 2
\* Step { step: StepType::AddEdge(..) } with and without an edge type, and a
\* step of another kind.
StepAddEdge(t) == [step |-> [tag |-> "AddEdge", edge_type |-> t]]
StepOut == [step |-> [tag |-> "Node"]]
Steps == {StepAddEdge(Some("Follows")), StepAddEdge(NoneOpt), StepOut}
StartNodes ==
    {[tag |-> "Node", node_type |-> "User"],
     [tag |-> "Edge", edge_type |-> "Likes"],
     [tag |-> "Vector", vector_type |-> "Doc"],
     [tag |-> "SearchVector", vector_type |-> Some("Doc")],
     [tag |-> "SearchVector", vector_type |-> NoneOpt],
     [tag |-> "Identifier"],
     [tag |-> "Anonymous"]}
TraversalExprs ==
    {[tag |-> "Traversal", steps |-> steps, start |-> start] :
        steps \in SeqsUpTo(Steps, MaxSteps), start \in StartNodes}
SrcTraversal(expr) ==
    [schema |-> <<>>,
     queries |-> <<Query("a.hx", 1, 1, <<>>, <<Assignment("u", expr)>>)>>]

InitTraversal ==
    /\ documents = (PA :> <<"u">>)
    /\ lastText = [u \in Uris |-> IF u = PA THEN Some(<<"u">>) ELSE NoneOpt]
    /\ parsed_cache \in {(DirKey(PA) :> SrcTraversal(expr)) : expr \in TraversalExprs}
    /\ disk = DiskBare
    /\ oracle = Collaborators
    /\ runs = <<>>
    /\ published = EmptyMap
    /\ response = NoneOpt
    /\ stale = [k \in Keys |-> NoneOpt]
    /\ completed = [k \in Keys |-> NoneOpt]
    /\ events = 0

\* The columns of the line u, where the word is u, and the line after it.
TraversalPositions ==
    {[line |-> l, character |-> c] : l \in 0..1, c \in 0..1}

NextTraversal == \E position \in TraversalPositions : hover(PA, position)

SpecTraversal == InitTraversal /\ [][NextTraversal]_vars

(***************************************************************************)
(* The specification of the contextual field type: hover at every column   *)
(* of a line with an object-access block after a node, an edge and a       *)
(* vector type, with no cached model, with SrcRich or with SrcBuiltins,    *)
(* whose definitions declare fields under the names of built-in fields.    *)
(***************************************************************************)
SchemaBuiltins ==
    [node_schemas |->
        <<[name |-> <<Loc(Some("a.hx"), 1, 4, 1, 8), "User">>,
           fields |-> <<Field("id", FtI32), Field("name", FtString)>>]>>,
     edge_schemas |->
        <<[name |-> <<Loc(Some("a.hx"), 2, 4, 2, 11), "Follows">>,
           from |-> <<Loc(Some("a.hx"), 2, 20, 2, 24), "User">>,
           to |-> <<Loc(Some("a.hx"), 2, 30, 2, 34), "User">>,
           properties |-> Some(<<Field("to_node", FtString), Field("since", FtDate),
                                 Field("data", FtI32)>>)]>>,
     vector_schemas |->
        <<[name |-> "Doc", loc |-> Loc(NoneOpt, 3, 1, 3, 20),
           fields |-> <<Field("score", FtI32), Field("tags", FtArray(FtString))>>]>>]
SrcBuiltins == [schema |-> <<SchemaBuiltins>>, queries |-> <<>>]

BuiltinsText ==
    <<"N", "<", "U", "s", "e", "r", ">", ":", ":", "{", "i", "d", ",", " ",
      "n", "a", "m", "e", ",", " ", "z", "z", "}", " ", "E", "<", "F", "o",
      "l", "l", "o", "w", "s", ">", ":", ":", "{", "t", "o", "_", "n", "o",
      "d", "e", ",", " ", "s", "i", "n", "c", "e", ",", " ", "d", "a", "t",
      "a", "}", " ", "V", "<", "D", "o", "c", ">", ":", ":", "{", "s", "c",
      "o", "r", "e", ",", " ", "t", "a", "g", "s", ",", " ", "f", "r", "o",
      "m", "_", "n", "o", "d", "e", "}">>
BuiltinsPositions ==
    {[line |-> 0, character |-> c] : c \in 0..(Len(BuiltinsText) + 1)}

InitBuiltins ==
    /\ documents = (PA :> BuiltinsText)
    /\ lastText = [u \in Uris |-> IF u = PA THEN Some(BuiltinsText) ELSE NoneOpt]
    /\ parsed_cache \in {EmptyMap} \cup {(DirKey(PA) :> src) : src \in {SrcBuiltins, SrcRich}}
    /\ disk = DiskBare
    /\ oracle = Collaborators
    /\ runs = <<>>
    /\ published = EmptyMap
    /\ response = NoneOpt
    /\ stale = [k \in Keys |-> NoneOpt]
    /\ completed = [k \in Keys |-> NoneOpt]
    /\ events = 0

NextBuiltins == \E position \in BuiltinsPositions : hover(PA, position)

SpecBuiltins == InitBuiltins /\ [][NextBuiltins]_vars

(***************************************************************************)
(* The specification of parse_error_location and of the diagnostic built   *)
(* for a failure: /d1/a.hx is saved once in a directory of two files, and  *)
(* the parser fails with an error text put together from up to             *)
(* MaxErrorPieces of ErrorPieces, among them the marker's arrow, numbers up *)
(* to and beyond u32::MAX, the colon and the line feed.                     *)
(***************************************************************************)
MaxErrorPieces == 5
ErrorPieces ==
    {<<"-", "-", ">", " ">>,
     <<"0">>,
     <<"1", "2">>,
     <<"4", "2", "9", "4", "9", "6", "7", "2", "9", "5">>,
     <<"4", "2", "9", "4", "9", "6", "7", "2", "9", "6">>,
     <<":">>,
     <<"\n">>}
ErrorTexts == {Flatten(ps) : ps \in SeqsUpTo(ErrorPieces, MaxErrorPieces)}

InitLocation ==
    /\ documents = EmptyMap
    /\ parsed_cache = EmptyMap
    /\ disk = DiskBare
    /\ oracle \in {{<<ParseErr(e), NotRun>>} : e \in ErrorTexts}
    /\ runs = <<>>
    /\ published = EmptyMap
    /\ response = NoneOpt
    /\ lastText = [u \in Uris |-> NoneOpt]
    /\ stale = [k \in Keys |-> NoneOpt]
    /\ completed = [k \in Keys |-> NoneOpt]
    /\ events = 0

\* The one save of the behaviour.
SaveOnce == events = 0 /\ did_save(PA)

NextLocation ==
    \/ SaveOnce
    \/ \E r \in 1..MaxInflight : PublishNext(r)

SpecLocation == InitLocation /\ [][NextLocation]_vars

(***************************************************************************)
(* The claims.                                                             *)
(***************************************************************************)
\* This step starts an analysis run: its record is the last of runs', or
\* what the handler has returned when the run ended within the step.
ReturnedAtOnce ==
    /\ response' # NoneOpt
    /\ Get(response').method = "analyze_workspace"
    /\ ~Get(response').result.panic
RunStarts == Len(runs') = Len(runs) + 1 \/ ReturnedAtOnce
Started ==
    IF Len(runs') = Len(runs) + 1 THEN runs'[Len(runs')]
    ELSE Get(response').result.value

\* The Workspace Cache entry of key k, as an option.
CacheEntry(cache, k) == IF k \in DOMAIN cache THEN Some(cache[k]) ELSE NoneOpt

\* C1: a run whose parser fails leaves the cache entry of its key as it was
\* (the same model, or still absent).
C1_ParseFailureKeepsCache ==
    [][(RunStarts /\ Started.outcome = "parse_err")
        => CacheEntry(parsed_cache', Started.dir_key)
           = CacheEntry(parsed_cache, Started.dir_key)]_vars

\* A run whose parser failed is in flight; its key had a model before the
\* run and has one now.
C1_Witness ==
    \E r \in DOMAIN runs :
        /\ runs[r].outcome = "parse_err"
        /\ runs[r].had_entry
        /\ runs[r].dir_key \in DOMAIN parsed_cache

\* C2: a run whose parser succeeds and whose analyzer fails leaves the cache
\* entry of its key as it was: the model parsed in the failing run is not
\* stored.
C2_AnalyzerFailureKeepsCache ==
    [][(RunStarts /\ Started.outcome = "analyze_err")
        => CacheEntry(parsed_cache', Started.dir_key)
           = CacheEntry(parsed_cache, Started.dir_key)]_vars

\* C3: a run in which parser and analyzer succeed leaves the model it
\* produced as the cache entry of its key, whatever the entry was before.
C3_SuccessReplacesCache ==
    [][(RunStarts /\ Started.outcome = "ok")
        => CacheEntry(parsed_cache', Started.dir_key) = Started.source]_vars

\* Two successful runs of one key with different models are in flight; the
\* cache holds the model of the later one.
C3_Witness ==
    \E r1, r2 \in DOMAIN runs :
        /\ r1 < r2
        /\ runs[r1].dir_key = runs[r2].dir_key
        /\ runs[r1].outcome = "ok" /\ runs[r2].outcome = "ok"
        /\ runs[r1].source # runs[r2].source
        /\ CacheEntry(parsed_cache, runs[r2].dir_key) = runs[r2].source

\* C5: a key that has a cache entry has one in every later state.
C5_CacheEntriesStay ==
    [][\A k \in DOMAIN parsed_cache : k \in DOMAIN parsed_cache']_vars

\* A run of a key that had a model failed to parse and has published its
\* first list; the key still has a model.
C5_Witness ==
    \E r \in DOMAIN runs :
        /\ runs[r].had_entry
        /\ runs[r].outcome = "parse_err"
        /\ runs[r].next > 1
        /\ runs[r].dir_key \in DOMAIN parsed_cache

\* The list a run owes to member f: what the translation collected for f,
\* empty when it collected nothing.
ListFor(run, f) == IF f \in DOMAIN run.collected THEN run.collected[f] ELSE <<>>

\* C6: every run publishes exactly one list for each member, in turn, and
\* nothing else: each step that publishes sets one member's list to the list
\* of that run (empty for a clean member), a run ends only with the list of
\* its last member, and what a run has published so far is one list for each
\* of its first members.
C6_OneListPerMember ==
    [][/\ \A r \in DOMAIN runs' :
            LET run == runs'[r] IN
            /\ \A i, j \in DOMAIN run.files : run.files[i] = run.files[j] => i = j
            /\ DOMAIN run.collected \subseteq Range(run.files)
            /\ run.sent = [i \in 1..(run.next - 1) |->
                              <<run.files[i], ListFor(run, run.files[i])>>]
       /\ (published' # published \/ Len(runs') < Len(runs))
            => \E r \in DOMAIN runs :
                 LET run == runs[r] IN
                 /\ published' = Insert(published, run.files[run.next],
                                        ListFor(run, run.files[run.next]))
                 /\ IF run.next = Len(run.files)
                    THEN runs' = Without(runs, r)
                    ELSE /\ Len(runs') = Len(runs)
                         /\ runs'[r].next = run.next + 1]_vars

\* A run that collected diagnostics for one member has published the empty
\* list for another, clean member.
C6_Witness ==
    \E r \in DOMAIN runs :
        /\ runs[r].collected # EmptyMap
        /\ runs[r].sent # <<>>
        /\ runs[r].sent[1][2] = <<>>
        /\ published[runs[r].sent[1][1]] = <<>>

RecognizedExtension(p) == p.ext \in {"hx", "hql"}

\* The members of the run this step starts and the bundle it hands to the
\* parser, read from the Document Store as the notification left it.
StartedBundle == BuildHxFiles(Started.files, documents')

\* C7: the members of a run are exactly the on-disk entries of the directory
\* with extension hx or hql, open or not, and the content handed to the
\* parser for a member is the open buffer when the Document Store holds the
\* path and what the disk read returns otherwise.
C7_MembersAndContent ==
    [][RunStarts =>
        /\ Range(Started.files)
           = {p \in DOMAIN disk.entries :
                p.dir = Started.dir_key /\ RecognizedExtension(p)}
        /\ Len(StartedBundle) = Len(Started.files)
        /\ \A i \in DOMAIN Started.files :
              LET p == Started.files[i] IN
              /\ StartedBundle[i].name = p.stem \o "." \o p.ext
              /\ StartedBundle[i].content =
                    IF p \in DOMAIN documents' THEN documents'[p]
                    ELSE IF disk.entries[p].readable THEN disk.entries[p].text
                    ELSE <<>>]_vars

\* A run is in flight in a directory that holds an open member, a closed
\* readable member and a file with another extension.
C7_Witness ==
    \E r \in DOMAIN runs : \E p, q \in Range(runs[r].files) :
        /\ p \in DOMAIN documents
        /\ q \notin DOMAIN documents /\ disk.entries[q].readable
        /\ \E x \in DOMAIN disk.entries :
              x.dir = runs[r].dir_key /\ ~RecognizedExtension(x)

\* C8: every open document with a recognized extension in the directory of a
\* run is a member of the run, on disk or not.
C8_OpenDocumentsAreMembers ==
    [][RunStarts =>
        \A u \in DOMAIN documents' :
            (u.dir = Started.dir_key /\ RecognizedExtension(u))
                => u \in Range(Started.files)]_vars

\* C9: the Document Store holds for each identifier the text of its last
\* open or change when it was not closed since, and nothing otherwise.
C9_StoreHoldsLastText ==
    \A u \in Uris :
        IF IsSome(lastText[u])
        THEN u \in DOMAIN documents /\ documents[u] = Get(lastText[u])
        ELSE u \notin DOMAIN documents

\* One document holds the text of a change, which no open carries, and
\* another holds the text it was opened with.
C9_Witness ==
    \E u, v \in Uris :
        /\ u \in DOMAIN documents /\ documents[u] \in ChangeTexts \ OpenTexts
        /\ v \in DOMAIN documents /\ documents[v] \in OpenTexts

\* The names of the node, edge and vector definitions of a model.
TypeNames(source) ==
    UNION {{n.name[2] : n \in Range(source.schema[i].node_schemas)}
           \cup {e.name[2] : e \in Range(source.schema[i].edge_schemas)}
           \cup {v.name : v \in Range(source.schema[i].vector_schemas)}
           : i \in DOMAIN source.schema}

\* The word of open document u at pos is the schema type T of model m, and
\* the hover there returns the rendering of T in m.
HoverRendersFrom(m, u, pos) ==
    LET w == get_word_at_position(documents, u, pos)
    IN  /\ ~w.panic /\ IsSome(w.value)
        /\ Get(w.value) \in TypeNames(m)
        /\ HoverAnswer(documents, parsed_cache, u, pos)
           = Ret(Some(Hover(Get(get_type_hover_info((DirKey(u) :> m), u,
                                                    Get(w.value))))))

\* C4: when a run of workspace K succeeded with a model that declares schema
\* type T and every later run of K failed to parse, a hover on the word T in
\* an open document of K returns the rendering of T in that earlier model.
C4_StaleModelAnswersHover ==
    \A u \in DOMAIN documents : \A pos \in Positions :
        LET w == get_word_at_position(documents, u, pos)
        IN  (/\ IsSome(stale[DirKey(u)])
             /\ ~w.panic /\ IsSome(w.value)
             /\ Get(w.value) \in TypeNames(Get(stale[DirKey(u)])))
            => HoverRendersFrom(Get(stale[DirKey(u)]), u, pos)

\* A run of a key whose earlier run succeeded has failed to parse, and the
\* hover on a type name in an open document of the key renders the type
\* from the earlier model.
C4_Witness ==
    \E r \in DOMAIN runs : \E u \in DOMAIN documents : \E pos \in Positions :
        /\ runs[r].outcome = "parse_err" /\ runs[r].had_entry
        /\ DirKey(u) = runs[r].dir_key
        /\ IsSome(stale[DirKey(u)])
        /\ HoverRendersFrom(Get(stale[DirKey(u)]), u, pos)

\* The hover request the last step answered, with what each resolver finds
\* for its word and position.
Answered == response # NoneOpt /\ Get(response).method = "hover"
AnsweredWord ==
    get_word_at_position(documents, Get(response).uri, Get(response).position)
FoundKeyword == get_keyword_docs(Get(AnsweredWord.value))
FoundType ==
    get_type_hover_info(parsed_cache, Get(response).uri, Get(AnsweredWord.value))
FoundVariable ==
    get_variable_type(parsed_cache, Get(response).uri, Get(response).position,
                      Get(AnsweredWord.value))
FoundParameter ==
    get_parameter_type(parsed_cache, Get(response).uri, Get(response).position,
                       Get(AnsweredWord.value))
FoundField ==
    get_field_context_hover(documents, parsed_cache, Get(response).uri,
                            Get(response).position, Get(AnsweredWord.value))
\* The hover answer that carries the Markdown text value.
Answer(value) == Ret(Some(Hover(value)))

\* C10: hover returns the result of the first resolver that matches, in the
\* order keyword documentation, schema type, variable type, parameter type,
\* contextual field type: the result of a later resolver is returned only
\* when every earlier one found nothing for the word and position.
C10_FirstResolverWins ==
    (Answered /\ ~AnsweredWord.panic /\ IsSome(AnsweredWord.value)) =>
        LET result == Get(response).result
            word == Get(AnsweredWord.value)
        IN  IF IsSome(FoundKeyword)
            THEN result = Answer("**" \o word \o "**\n\n" \o Get(FoundKeyword))
            ELSE IF IsSome(FoundType) THEN result = Answer(Get(FoundType))
            ELSE IF IsSome(FoundVariable)
            THEN result = Answer(Replace(Get(FoundVariable), Placeholder,
                                         "**" \o word \o "**"))
            ELSE IF IsSome(FoundParameter)
            THEN result = Answer(Get(FoundParameter))
            ELSE IF FoundField.panic THEN result = Panic
            ELSE IF IsSome(FoundField.value)
            THEN result = Answer(Get(FoundField.value))
            ELSE result = Ret(NoneOpt)

\* A hover was answered for a word that the parameter resolver and the
\* contextual field resolver both match, and no earlier resolver does: the
\* answer is the parameter's.
C10_Witness ==
    /\ Answered /\ ~AnsweredWord.panic /\ IsSome(AnsweredWord.value)
    /\ ~IsSome(FoundKeyword) /\ ~IsSome(FoundType) /\ ~IsSome(FoundVariable)
    /\ IsSome(FoundParameter)
    /\ ~FoundField.panic /\ IsSome(FoundField.value)
    /\ Get(FoundField.value) # Get(FoundParameter)
    /\ Get(response).result = Answer(Get(FoundParameter))

\* A run of the workspace of the hover just answered is in flight.
AnsweredInFlight ==
    Answered /\ \E r \in DOMAIN runs : runs[r].dir_key = DirKey(Get(response).uri)

\* The models of the successful runs of key k, those whose parser and
\* analyzer both succeeded: the model of the last such run that returned
\* and the models of those in flight.
SuccessfulModels(k) ==
    {m \in {completed[k]} : IsSome(m)}
    \cup {runs[r].source : r \in {x \in DOMAIN runs : /\ runs[x].dir_key = k
                                                       /\ runs[x].outcome = "ok"}}

\* C11 as stated, with a successful run counted from the step that stores
\* its model, the reading that asks least of the code: a hover answered
\* while a run of its workspace is in flight is the answer computed from the
\* model of a successful run of the workspace, returned or still in flight,
\* or from no model.
C11_AnsweredFromSuccessfulRun ==
    AnsweredInFlight =>
        LET uri == Get(response).uri
            k == DirKey(uri)
        IN  Get(response).result
              \in {HoverAnswer(documents, Remove(parsed_cache, k), uri,
                               Get(response).position)}
                  \cup {HoverAnswer(documents, Insert(parsed_cache, k, Get(m)), uri,
                                    Get(response).position) :
                            m \in SuccessfulModels(k)}

\* The run this step starts reads text as the content of uri.
ReadsStored(uri, text) ==
    \E i \in DOMAIN Started.files :
        Started.files[i] = uri /\ StartedBundle[i].content = text

\* C12: every open, change and save notification starts exactly one run of
\* the workspace of its file, and the run of an open or a change reads the
\* text the notification stored.
C12_EveryNotificationRuns ==
    [][/\ \A uri \in EditorUris : \A text \in OpenTexts :
             did_open(uri, text)
                 => /\ RunStarts /\ Started.dir_key = DirKey(uri)
                    /\ ReadsStored(uri, text)
       /\ \A uri \in EditorUris : \A cs \in ChangeLists :
             did_change(uri, cs)
                 => /\ RunStarts /\ Started.dir_key = DirKey(uri)
                    /\ cs # <<>> => ReadsStored(uri, Head(cs))
       /\ \A uri \in EditorUris :
             did_save(uri) => RunStarts /\ Started.dir_key = DirKey(uri)]_vars

\* This step is an iteration of the publishing loop of run r.
Publishes(r) ==
    /\ runs[r].files # <<>>
    /\ \/ runs' = Without(runs, r) /\ runs[r].next = Len(runs[r].files)
       \/ /\ Len(runs') = Len(runs)
          /\ runs'[r] = [runs[r] EXCEPT !.next = runs[r].next + 1,
                                        !.all_diagnostics = runs'[r].all_diagnostics,
                                        !.sent = runs'[r].sent]

\* C13: a run whose parser failed, or whose analyzer failed after the
\* parser succeeded, publishes for its first member a list of exactly one
\* diagnostic, of severity Error, and for every other member the empty
\* list: one diagnostic in total.
C13_OneErrorPerFailedRun ==
    [][\A r \in DOMAIN runs :
          (runs[r].outcome # "ok" /\ Publishes(r)) =>
              LET file_uri == runs[r].files[runs[r].next]
              IN  /\ file_uri \in DOMAIN published'
                  /\ IF runs[r].next = 1
                     THEN /\ Len(published'[file_uri]) = 1
                          /\ published'[file_uri][1].severity = "ERROR"
                     ELSE published'[file_uri] = <<>>]_vars

\* A run whose analyzer failed has published one Error diagnostic for its
\* first member and is about to publish for its second member.
C13_Witness ==
    \E r \in DOMAIN runs :
        /\ runs[r].outcome = "analyze_err"
        /\ Len(runs[r].files) = 2 /\ runs[r].next = 2
        /\ Len(published[runs[r].files[1]]) = 1
        /\ published[runs[r].files[1]][1].severity = "ERROR"
        /\ runs[r].sent = <<<<runs[r].files[1], published[runs[r].files[1]]>>>>
        /\ runs[r].all_diagnostics = EmptyMap

\* The request the last step answered.
Requested == response # NoneOpt /\ Get(response).method # "analyze_workspace"
Request == Get(response)

\* C14: hover, definition and completion return for every document text and
\* every cursor line and column: no request ends in a panic.
C14_NoRequestPanics ==
    Requested => ~Request.result.panic

\* What the last request found: its document, its line, the word at its
\* position (for the requests that look for one), the entry of its
\* workspace.
RequestHasDocument == Request.uri \in DOMAIN documents
RequestHasLine ==
    /\ RequestHasDocument
    /\ Request.position.line < Len(Lines(documents[Request.uri]))
RequestWord == get_word_at_position(documents, Request.uri, Request.position)
RequestHasWord == ~RequestWord.panic /\ IsSome(RequestWord.value)
RequestHasEntry == DirKey(Request.uri) \in DOMAIN parsed_cache

\* The request found a match: a resolver of hover matches the word, the
\* cached model defines the word, the list of completion items is not empty.
RequestHasMatch ==
    CASE Request.method = "hover" ->
            /\ RequestHasWord
            /\ \/ IsSome(get_keyword_docs(Get(RequestWord.value)))
               \/ IsSome(get_type_hover_info(parsed_cache, Request.uri,
                                             Get(RequestWord.value)))
               \/ IsSome(get_variable_type(parsed_cache, Request.uri,
                                           Request.position, Get(RequestWord.value)))
               \/ IsSome(get_parameter_type(parsed_cache, Request.uri,
                                            Request.position, Get(RequestWord.value)))
               \/ IsSome(get_field_context_hover(documents, parsed_cache,
                             Request.uri, Request.position,
                             Get(RequestWord.value)).value)
      [] Request.method = "definition" ->
            /\ RequestHasWord /\ RequestHasEntry
            /\ Get(RequestWord.value)
                   \in TypeNames(parsed_cache[DirKey(Request.uri)])
      [] Request.method = "completion" ->
            get_completions(documents, parsed_cache, Request.uri,
                            Request.position).value # <<>>

\* C15 as stated: a request that returns and found no open document, no
\* word, no cache entry or no match returns no answer.
C15_EveryMissIsEmpty ==
    (Requested /\ ~Request.result.panic) =>
        ((\/ ~RequestHasDocument
          \/ Request.method # "completion" /\ ~RequestHasWord
          \/ ~RequestHasEntry
          \/ ~RequestHasMatch)
            => Request.result = Ret(NoneOpt))

\* C15: a request that returns, returns an answer or no answer, never an
\* error.  Hover and definition return no answer when there is no open
\* document, no word at the cursor or no match, and definition also when
\* there is no cache entry; hover without a cache entry answers for a
\* keyword only.  Completion returns no answer when there is no open
\* document, no such line or no item, and without a cache entry it returns
\* the traversal steps after the scope operator and the keywords elsewhere.
C15_MissIsEmptyResult ==
    (Requested /\ ~Request.result.panic) =>
        /\ Request.result = Ret(NoneOpt) \/ IsSome(Request.result.value)
        /\ (~RequestHasDocument \/ ~RequestHasMatch)
              => Request.result = Ret(NoneOpt)
        /\ (Request.method # "completion" /\ ~RequestHasWord)
              => Request.result = Ret(NoneOpt)
        /\ (Request.method = "definition" /\ ~RequestHasEntry)
              => Request.result = Ret(NoneOpt)
        /\ (Request.method = "hover" /\ ~RequestHasEntry /\ RequestHasWord
            /\ ~IsSome(get_keyword_docs(Get(RequestWord.value))))
              => Request.result = Ret(NoneOpt)
        /\ (Request.method = "completion" /\ RequestHasLine /\ ~RequestHasEntry)
              => Request.result.value \in {Some([array |-> Traversals]),
                                           Some([array |-> Keywords])}

\* A definition request on a word that the cached model defines was made
\* after the document was closed, and returned no answer.
C15_Witness ==
    /\ Requested /\ Request.method = "definition"
    /\ ~RequestHasDocument /\ lastText[Request.uri] = NoneOpt
    /\ RequestHasEntry
    /\ \E text \in HoverTexts :
          LET w == get_word_at_position((Request.uri :> text), Request.uri,
                                        Request.position)
          IN  /\ ~w.panic /\ IsSome(w.value)
              /\ Get(w.value) \in TypeNames(parsed_cache[DirKey(Request.uri)])
    /\ Request.result = Ret(NoneOpt)

\* C16: every handler returns.  Close and the three requests return in the
\* step that handles them; a run, and with it the open, change or save that
\* called it, always has a next step of its own to take, whatever the other
\* handlers in flight are doing, and every run in flight eventually returns.
C16_HandlersTerminate ==
    /\ [](\A r \in DOMAIN runs : runs[r].next \in DOMAIN runs[r].files)
    /\ (runs # <<>>) ~> (runs = <<>>)

\* A request was answered while a run of its workspace was in flight
\* between two of its publications.
C16_Witness ==
    /\ Requested
    /\ \E r \in DOMAIN runs :
          /\ runs[r].dir_key = DirKey(Request.uri)
          /\ runs[r].next > 1
          /\ runs[r].next \in DOMAIN runs[r].files

\* The line and the column of the call of get_word_at_position just made,
\* for a call on a line the text has and a column within the line.
WordCalled == Requested /\ Request.method = "get_word_at_position"
CalledLine == Lines(documents[Request.uri])[Request.position.line + 1]
CalledColumn == Request.position.character
CalledWithin ==
    /\ WordCalled
    /\ Request.position.line < Len(Lines(documents[Request.uri]))
    /\ CalledColumn <= Len(CalledLine)

\* The character at column c of the line (columns count from 0) is a word
\* character.
WordCharAt(line, c) == c >= 0 /\ c < Len(line) /\ IsWordChar(line[c + 1])

\* The characters of columns from..(to - 1) of the line are a maximal run
\* of word characters.
MaximalRun(line, from, to) ==
    /\ from < to
    /\ \A c \in from..(to - 1) : WordCharAt(line, c)
    /\ ~WordCharAt(line, from - 1)
    /\ ~WordCharAt(line, to)

\* C17 as stated: the result is the maximal run of word characters that
\* contains the character at the cursor column, and no word whenever that
\* character is not a word character.
C17_NoWordOnDelimiter ==
    CalledWithin =>
        IF WordCharAt(CalledLine, CalledColumn)
        THEN \E from \in 0..CalledColumn : \E to \in (CalledColumn + 1)..Len(CalledLine) :
                /\ MaximalRun(CalledLine, from, to)
                /\ Request.result = Ret(Some(Join(SubSeq(CalledLine, from + 1, to))))
        ELSE Request.result = Ret(NoneOpt)

\* C17: the result is the maximal run of word characters that contains the
\* character at the cursor column or ends just before it, and no word
\* exactly when neither that character nor the one before it is a word
\* character; outside the text there is no word.
C17_MaximalRunAtCursor ==
    WordCalled =>
        IF ~CalledWithin THEN Request.result = Ret(NoneOpt)
        ELSE IF \/ WordCharAt(CalledLine, CalledColumn)
                \/ WordCharAt(CalledLine, CalledColumn - 1)
        THEN \E from \in 0..CalledColumn : \E to \in CalledColumn..Len(CalledLine) :
                /\ MaximalRun(CalledLine, from, to)
                /\ Request.result = Ret(Some(Join(SubSeq(CalledLine, from + 1, to))))
        ELSE Request.result = Ret(NoneOpt)

\* The cursor is on a delimiter right after a word, inside the line, and the
\* result is that word.
C17_Witness ==
    /\ CalledWithin
    /\ CalledColumn < Len(CalledLine)
    /\ ~WordCharAt(CalledLine, CalledColumn)
    /\ WordCharAt(CalledLine, CalledColumn - 1)
    /\ IsSome(Request.result.value)
    /\ Len(Get(Request.result.value)) = 2

\* A valid occurrence starts at index i of the text and its closing bracket
\* is at index j: a kind letter, the opening bracket, a non-empty identifier
\* of word characters, the closing bracket.
ValidOccurrence(text, i, j) ==
    /\ text[i] \in {"N", "E", "V"}
    /\ i + 1 <= Len(text) /\ text[i + 1] = "<"
    /\ j > i + 2 /\ j <= Len(text) /\ text[j] = ">"
    /\ \A k \in (i + 2)..(j - 1) : text[k] # Cont => IsWordChar(text[k])

ValidStarts(text) ==
    {i \in DOMAIN text : \E j \in DOMAIN text : ValidOccurrence(text, i, j)}

\* C18: find_context_type returns the kind and the name of the valid
\* occurrence that starts latest in the text, and nothing only when the text
\* has no valid occurrence.
C18_LatestValidOccurrence ==
    (Requested /\ Request.method = "find_context_type") =>
        LET text == documents[Request.uri]
            starts == ValidStarts(text)
        IN  IF starts = {} THEN Request.result = NoneOpt
            ELSE LET i == CHOOSE x \in starts : \A y \in starts : y <= x
                     j == CHOOSE x \in DOMAIN text : ValidOccurrence(text, i, x)
                 IN  Request.result
                     = Some(<<text[i], Join(Chars(SubSeq(text, i + 2, j - 1)))>>)

\* The diagnostics the analyzer can return, and the one with a message.
AnalyzerDiagnostics ==
    UNION {Range(c[2].diagnostics) : c \in oracle}
AnalyzerDiagnostic(message) ==
    CHOOSE d \in AnalyzerDiagnostics : d.message = message

\* The diagnostics the editor holds that come from an analyzer diagnostic.
PublishedFromAnalyzer ==
    {p \in UNION {Range(published[f]) : f \in DOMAIN published} :
        \E d \in AnalyzerDiagnostics : d.message = p.message}

\* The 0-based value of a 1-based one, as a u32.
ZeroBased(n) == U32(IF n = 0 THEN 0 ELSE n - 1)

\* C19: every start and end line and column of a published analyzer
\* diagnostic is the analyzer's value minus one, and 0 for the value 0.
C19_ZeroBasedRange ==
    \A p \in PublishedFromAnalyzer :
        LET d == AnalyzerDiagnostic(p.message)
        IN  /\ p.range.start.line = ZeroBased(d.location.start.line)
            /\ p.range.start.character = ZeroBased(d.location.start.column)
            /\ p.range.end.line = ZeroBased(d.location.end.line)
            /\ p.range.end.character = ZeroBased(d.location.end.column)

\* The editor holds a diagnostic whose analyzer positions are all 0,
\* published as 0, and one whose positions are positive, one of them beyond
\* 16 bits.
C19_Witness ==
    \E p, q \in PublishedFromAnalyzer :
        /\ AnalyzerDiagnostic(p.message).location.start.line = 0
        /\ p.range = [start |-> [line |-> U32Zero, character |-> U32Zero],
                      end |-> [line |-> U32Zero, character |-> U32Zero]]
        /\ AnalyzerDiagnostic(q.message).location.start.line = 3
        /\ q.range = [start |-> [line |-> <<0, 2>>, character |-> <<0, 6>>],
                      end |-> [line |-> <<1, 4464>>, character |-> <<0, 11>>]]

\* C20: the message of a published analyzer diagnostic is the analyzer's
\* message, followed by a blank line and the hint text when the diagnostic
\* carries one.
C20_HintAppended ==
    \A p \in PublishedFromAnalyzer :
        LET d == AnalyzerDiagnostic(p.message)
        IN  p.message = IF IsSome(d.hint)
                        THEN d.message \o "\n\n" \o Get(d.hint)
                        ELSE d.message

\* C21: while the member set, the document texts and the results of the
\* parser and the analyzer stay the same, every run publishes for each
\* member the list the run before published for it: no step changes the
\* list of a file that has one.
C21_RepeatedRunSameLists ==
    [][\A f \in DOMAIN published :
          f \in DOMAIN published' /\ published'[f] = published[f]]_vars

\* A second run of a directory with two members has published again a list
\* that is not empty for its first member, while the list of its second
\* member is still that of the first run.
C21_Witness ==
    /\ events = 2
    /\ \E r \in DOMAIN runs :
          /\ Len(runs[r].files) = 2
          /\ runs[r].next = 2
          /\ runs[r].sent[1][2] # <<>>
          /\ published[runs[r].files[1]] = runs[r].sent[1][2]
          /\ runs[r].files[2] \in DOMAIN published
          /\ \A q \in DOMAIN runs : q # r => runs[q].dir_key # runs[r].dir_key

\* The queries of the cached model of the workspace of the request.
CachedQueries ==
    IF DirKey(Get(response).uri) \in DOMAIN parsed_cache
    THEN parsed_cache[DirKey(Get(response).uri)].queries ELSE <<>>
\* The declared type of a parameter with its optional marker, as hover
\* shows it for word.
DeclaredType(param, word) ==
    "**" \o word \o "**: " \o field_type_to_string(param.param_type[2])
    \o (IF param.is_optional THEN "?" ELSE "") \o " (parameter)"

\* C22: when hover is answered for a word that no earlier resolver (keyword,
\* schema type, variable) matches, then for every cached query whose span
\* holds the cursor line and that declares a parameter named by the word,
\* the answer is that parameter's declared type, followed by '?' exactly
\* when the parameter is optional.
C22_DeclaredParameterType ==
    (/\ Answered /\ ~AnsweredWord.panic /\ IsSome(AnsweredWord.value)
     /\ ~IsSome(FoundKeyword) /\ ~IsSome(FoundType) /\ ~IsSome(FoundVariable)) =>
        \A i \in DOMAIN CachedQueries :
            \A j \in DOMAIN CachedQueries[i].parameters :
                LET query == CachedQueries[i]
                    param == query.parameters[j]
                IN  (/\ InQuery(query, Get(response).position.line + 1)
                     /\ param.name[2] = Get(AnsweredWord.value))
                    => Get(response).result
                         = Answer(DeclaredType(param, Get(AnsweredWord.value)))

\* The node, edge and vector definitions of the cached model of the
\* workspace of the request that are named word, in the order the schema
\* versions are iterated and, within a version, nodes before edges before
\* vectors.
DefinitionsNamed(word) ==
    LET schemas == IF DirKey(Get(response).uri) \in DOMAIN parsed_cache
                   THEN parsed_cache[DirKey(Get(response).uri)].schema ELSE <<>>
        OfVersion(schema) ==
            [i \in DOMAIN schema.node_schemas |->
                [kind |-> "Node", name |-> schema.node_schemas[i].name[2],
                 def |-> schema.node_schemas[i]]]
            \o [i \in DOMAIN schema.edge_schemas |->
                [kind |-> "Edge", name |-> schema.edge_schemas[i].name[2],
                 def |-> schema.edge_schemas[i]]]
            \o [i \in DOMAIN schema.vector_schemas |->
                [kind |-> "Vector", name |-> schema.vector_schemas[i].name,
                 def |-> schema.vector_schemas[i]]]
    IN  SelectSeq(Flatten([v \in DOMAIN schemas |-> OfVersion(schemas[v])]),
                  LAMBDA d : d.name = word)

\* One line 'name: type' for each field, in declaration order.
ListedFields(fields, indent) ==
    Join([i \in DOMAIN fields |->
            indent \o fields[i].name \o ": "
            \o field_type_to_string(fields[i].field_type) \o "\n"])

\* The rendering of definition d: its kind, its fields and, for an edge, its
\* From and To types.
Listing(d, word) ==
    CASE d.kind = "Node" ->
            "**" \o word \o "** (Node)\n\n" \o Fence \o "hql\nN::" \o word
            \o " {\n" \o ListedFields(d.def.fields, "    ") \o "}\n" \o Fence
      [] d.kind = "Edge" ->
            "**" \o word \o "** (Edge)\n\n" \o Fence \o "hql\nE::" \o word
            \o " {\n    From: " \o d.def.from[2] \o "\n    To: " \o d.def.to[2] \o "\n"
            \o (IF IsSome(d.def.properties)
                THEN "    Properties {\n"
                     \o ListedFields(Get(d.def.properties), "        ") \o "    }\n"
                ELSE "")
            \o "}\n" \o Fence
      [] d.kind = "Vector" ->
            "**" \o word \o "** (Vector)\n\n" \o Fence \o "hql\nV::" \o word
            \o " {\n" \o ListedFields(d.def.fields, "    ") \o "}\n" \o Fence

\* The hover the last step answered is for a word that is no documented
\* keyword.
AnsweredNonKeyword ==
    /\ Answered /\ ~AnsweredWord.panic /\ IsSome(AnsweredWord.value)
    /\ ~IsSome(FoundKeyword)

\* C23 as stated: for a word that is no documented keyword, the answer is
\* the rendering of every definition of the cached model that has the word
\* as its name, in whatever schema version.
C23_EveryDefinitionRendered ==
    AnsweredNonKeyword =>
        \A d \in Range(DefinitionsNamed(Get(AnsweredWord.value))) :
            Get(response).result = Answer(Listing(d, Get(AnsweredWord.value)))

\* C23 as amended: for a word that is no documented keyword and names a
\* definition of the cached model, the answer is the rendering of the first
\* definition of that name (versions in iteration order, nodes before edges
\* before vectors within a version): all its fields as 'name: type' in
\* declaration order and, for an edge, its From and To types.
C23_FirstDefinitionRendered ==
    (AnsweredNonKeyword /\ DefinitionsNamed(Get(AnsweredWord.value)) # <<>>) =>
        Get(response).result
          = Answer(Listing(DefinitionsNamed(Get(AnsweredWord.value))[1],
                           Get(AnsweredWord.value)))

\* Hover was answered for a word that two schema versions define with
\* different fields, with the rendering of the first.
C23_Witness ==
    /\ AnsweredNonKeyword
    /\ LET word == Get(AnsweredWord.value)
           defs == DefinitionsNamed(word)
       IN  /\ Len(defs) = 2
           /\ Listing(defs[1], word) # Listing(defs[2], word)
           /\ Get(response).result = Answer(Listing(defs[1], word))

\* The completion request the last step answered, on a line the document
\* has: the prefix of the line before the cursor (the whole line when the
\* column is beyond it) and the items returned.
CompletionAnswered ==
    /\ Requested /\ Request.method = "completion"
    /\ RequestHasLine /\ ~Request.result.panic
CompletionPrefix ==
    LET line == Lines(documents[Request.uri])[Request.position.line + 1]
    IN  IF Request.position.character > Len(line) THEN line
        ELSE SubSeq(line, 1, Request.position.character)
ReturnedItems ==
    IF IsSome(Request.result.value) THEN Get(Request.result.value).array ELSE <<>>

\* The prefix is inside the brackets of kind k ("N", "E" or "V"): it ends
\* with the opener, or holds the opener and no closing bracket.
InsideBrackets(k) ==
    \/ /\ Len(CompletionPrefix) >= 2
       /\ CompletionPrefix[Len(CompletionPrefix) - 1] = k
       /\ CompletionPrefix[Len(CompletionPrefix)] = "<"
    \/ /\ \E i \in 1..(Len(CompletionPrefix) - 1) :
             CompletionPrefix[i] = k /\ CompletionPrefix[i + 1] = "<"
       /\ ">" \notin Range(CompletionPrefix)
AfterScopeOperator ==
    /\ Len(CompletionPrefix) >= 2
    /\ CompletionPrefix[Len(CompletionPrefix) - 1] = ":"
    /\ CompletionPrefix[Len(CompletionPrefix)] = ":"

\* One item for each type of kind k that the cached schema of the workspace
\* declares, none without a cached model.
DeclaredTypeItems(k) ==
    LET schemas == IF RequestHasEntry
                   THEN parsed_cache[DirKey(Request.uri)].schema ELSE <<>>
        Names(schema) ==
            CASE k = "N" -> [i \in DOMAIN schema.node_schemas |->
                                schema.node_schemas[i].name[2]]
              [] k = "E" -> [i \in DOMAIN schema.edge_schemas |->
                                schema.edge_schemas[i].name[2]]
              [] k = "V" -> [i \in DOMAIN schema.vector_schemas |->
                                schema.vector_schemas[i].name]
        names == Flatten([v \in DOMAIN schemas |-> Names(schemas[v])])
        detail == CASE k = "N" -> "Node type" [] k = "E" -> "Edge type"
                    [] k = "V" -> "Vector type"
    IN  [i \in DOMAIN names |-> [label |-> names[i], kind |-> "CLASS", detail |-> detail]]

\* C24 as stated: the prefix is in one of five cases (node, edge, vector
\* brackets, after the scope operator, default) and completion returns, for
\* a bracket case, exactly the types of that kind the cached schema
\* declares, after the scope operator exactly the traversal steps and
\* otherwise exactly the keywords and creation operators.
C24_FiveCases ==
    CompletionAnswered =>
        ReturnedItems =
            IF InsideBrackets("N") THEN DeclaredTypeItems("N")
            ELSE IF InsideBrackets("E") THEN DeclaredTypeItems("E")
            ELSE IF InsideBrackets("V") THEN DeclaredTypeItems("V")
            ELSE IF AfterScopeOperator THEN Traversals
            ELSE Keywords

\* C24 as amended: a bracket case is recognised only while the workspace has
\* a cached model, node before edge before vector brackets, and returns
\* exactly the types of that kind the cached schema declares; in every
\* other state of prefix and cache completion returns exactly the traversal
\* steps after the scope operator and exactly the keywords and creation
\* operators elsewhere.
C24_FiveCasesOfPrefixAndCache ==
    CompletionAnswered =>
        ReturnedItems =
            IF RequestHasEntry /\ InsideBrackets("N") THEN DeclaredTypeItems("N")
            ELSE IF RequestHasEntry /\ InsideBrackets("E") THEN DeclaredTypeItems("E")
            ELSE IF RequestHasEntry /\ InsideBrackets("V") THEN DeclaredTypeItems("V")
            ELSE IF AfterScopeOperator THEN Traversals
            ELSE Keywords

\* Completion was answered inside vector-type brackets with the vector type
\* of the cached schema.
C24_Witness ==
    /\ CompletionAnswered
    /\ RequestHasEntry
    /\ InsideBrackets("V") /\ ~InsideBrackets("N") /\ ~InsideBrackets("E")
    /\ ReturnedItems = <<[label |-> "Doc", kind |-> "CLASS",
                          detail |-> "Vector type"]>>

\* The files run has published a list for.
SentFiles(run) == {run.sent[i][1] : i \in DOMAIN run.sent}

\* C25: an older run never publishes over a newer run's list: no run
\* publishes its list for a file after a run of the same workspace that
\* started later has published a different list for that file.
C25_NewerListStays ==
    [][\A r \in DOMAIN runs :
          Publishes(r) =>
              LET f == runs[r].files[runs[r].next]
              IN  \A q \in DOMAIN runs :
                      (/\ q > r
                       /\ runs[q].dir_key = runs[r].dir_key
                       /\ f \in SentFiles(runs[q]))
                      => ListFor(runs[q], f) = ListFor(runs[r], f)]_vars

\* C26: the cache entry of a workspace is the model of the run that read
\* the newest text among its runs whose parser and analyzer succeeded, as
\* long as no run that read newer text still stored a model (stale records
\* that model at the start of each run): while such runs overlap and after
\* they have finished, in whatever order they finish, a model parsed from
\* older text does not replace it.
C26_NewestModelStays ==
    \A k \in Keys : IsSome(stale[k]) => CacheEntry(parsed_cache, k) = stale[k]

\* Two successful runs of one workspace with different models overlapped:
\* the one that started later has returned, the older one is still in
\* flight, and the cache entry is the model of the later one.
C26_Witness ==
    \E r \in DOMAIN runs :
        LET k == runs[r].dir_key IN
        /\ runs[r].outcome = "ok"
        /\ runs[r].sent # <<>>
        /\ Len(runs) = 1
        /\ completed[k] # NoneOpt
        /\ completed[k] # runs[r].source
        /\ CacheEntry(parsed_cache, k) = completed[k]
        /\ stale[k] = completed[k]

\* This step is the handling of a notification for uri that starts a run.
Triggers(uri) ==
    \/ \E text \in OpenTexts : did_open(uri, text)
    \/ \E cs \in ChangeLists : cs # <<>> /\ did_change(uri, cs)
    \/ did_save(uri)

\* Nothing of a directory other than dir changes in this step: neither its
\* cache entry nor the list last published for any of its files.
OthersUnchanged(dir) ==
    /\ \A k \in Keys \ {dir} :
          CacheEntry(parsed_cache', k) = CacheEntry(parsed_cache, k)
    /\ \A f \in DOMAIN published' :
          DirKey(f) # dir => f \in DOMAIN published /\ published'[f] = published[f]

\* C27: a run triggered by a file of directory D has its key D and its
\* members in D, and each of its steps (the start, which may store the
\* model, and the publication for each member) leaves the cache entries and
\* the published lists of every other directory as they were.
C27_RunStaysInItsDirectory ==
    [][/\ RunStarts =>
            /\ \A uri \in EditorUris :
                    DirKey(uri) # Started.dir_key => ~Triggers(uri)
            /\ \A f \in Range(Started.files) : DirKey(f) = Started.dir_key
            /\ OthersUnchanged(Started.dir_key)
       /\ \A r \in DOMAIN runs :
            Publishes(r) => OthersUnchanged(runs[r].dir_key)]_vars

\* Runs of two directories have finished: each directory has its own model
\* and a file of each has its own list.
C27_Witness ==
    /\ runs = <<>>
    /\ DirKey(PA) \in DOMAIN parsed_cache /\ DirKey(PD) \in DOMAIN parsed_cache
    /\ parsed_cache[DirKey(PA)] # parsed_cache[DirKey(PD)]
    /\ PA \in DOMAIN published /\ PD \in DOMAIN published
    /\ published[PA] # published[PD]

\* C28: the handling of a close notification for uri removes the entry of
\* uri from the Document Store and nothing else: the other documents are as
\* they were, the Workspace Cache is as it was, no run starts or advances
\* and no list is published.
C28_CloseRemovesOneDocument ==
    [][\A uri \in EditorUris :
          did_close(uri) =>
              /\ uri \notin DOMAIN documents'
              /\ DOMAIN documents' = DOMAIN documents \ {uri}
              /\ \A u \in DOMAIN documents' : documents'[u] = documents[u]
              /\ parsed_cache' = parsed_cache
              /\ runs' = runs
              /\ published' = published]_vars

\* The only open document has been closed: the store is empty, the model of
\* its workspace is cached, the list published for it is not empty and a
\* run of its workspace is still publishing.
C28_Witness ==
    /\ events = 2
    /\ documents = EmptyMap
    /\ DirKey(PA) \in DOMAIN parsed_cache
    /\ PA \in DOMAIN published /\ published[PA] # <<>>
    /\ \E r \in DOMAIN runs : runs[r].dir_key = DirKey(PA) /\ runs[r].sent # <<>>

\* C29: a step that answers a hover, definition or completion request
\* leaves the Document Store and the Workspace Cache exactly as they were,
\* publishes no list and starts or advances no run.
C29_RequestsReadOnly ==
    [][(response' # NoneOpt /\ Get(response').method # "analyze_workspace") =>
          /\ Get(response').method \in {"hover", "definition", "completion"}
          /\ documents' = documents
          /\ parsed_cache' = parsed_cache
          /\ published' = published
          /\ runs' = runs]_vars

\* A completion request for a document the store does not hold was answered
\* while a run was in flight and a model was cached: the store still does
\* not hold the document.
C29_Witness ==
    /\ Requested /\ Request.method = "completion"
    /\ Request.uri \notin DOMAIN documents
    /\ runs # <<>>
    /\ parsed_cache # EmptyMap

\* The Workspace Cache without the queries that the parser located in a
\* file other than the file of uri.
OwnQueriesCache(uri) ==
    [k \in DOMAIN parsed_cache |->
        IF k = DirKey(uri)
        THEN [parsed_cache[k] EXCEPT
                !.queries = SelectSeq(parsed_cache[k].queries,
                               LAMBDA q : q.loc.filepath = Some(FileName(uri)))]
        ELSE parsed_cache[k]]

\* C30: the hover answer for a position in file F is the answer computed
\* from the queries declared in F alone: a query of a sibling file whose
\* lines hold the cursor line neither supplies the variable or parameter
\* type nor keeps a matching query of F from being found.
C30_OnlyQueriesOfTheFile ==
    Answered =>
        Get(response).result
          = HoverAnswer(documents, OwnQueriesCache(Get(response).uri),
                        Get(response).uri, Get(response).position)

\* The result the parser and the analyzer return in every run, where the
\* oracle holds one.
TheResult == CHOOSE c \in oracle : TRUE

\* The run that ends in this step and the lists it has published, the one
\* of this step included: none for a run without members.
Ends(r) == r \in DOMAIN runs /\ runs' = Without(runs, r)
PublishedBy(r) ==
    [i \in DOMAIN runs[r].files |->
        IF i < runs[r].next THEN runs[r].sent[i][2]
        ELSE published'[runs[r].files[i]]]

\* The places of the lists at which a diagnostic with the message stands.
Places(lists, message) ==
    {p \in (DOMAIN lists) \X (1..Len(TheResult[2].diagnostics)) :
        p[2] \in DOMAIN lists[p[1]] /\ lists[p[1]][p[2]].message = message}

\* C31: when a run with members whose parser and analyzer succeeded ends,
\* every diagnostic the analyzer returned stands at exactly one place of
\* the lists the run has published: none is dropped, none is published
\* twice.
C31_EveryDiagnosticInOneList ==
    [][\A r \in DOMAIN runs :
          (Ends(r) /\ runs[r].outcome = "ok" /\ runs[r].files # <<>>) =>
              \A d \in Range(TheResult[2].diagnostics) :
                  Cardinality(Places(PublishedBy(r), d.message)) = 1]_vars

\* The members of a started run in whose collected list a diagnostic with
\* the message stands, and the number of its places in all the lists.
Holders(run, message) ==
    {f \in DOMAIN run.collected :
        \E j \in DOMAIN run.collected[f] : run.collected[f][j].message = message}
Copies(run, message) ==
    Cardinality({p \in (DOMAIN run.collected) \X (1..Len(TheResult[2].diagnostics)) :
                    /\ p[2] \in DOMAIN run.collected[p[1]]
                    /\ run.collected[p[1]][p[2]].message = message})

\* C32: in a run whose parser and analyzer succeeded, a diagnostic whose
\* filename is the file name of a member stands once in the list of that
\* member and in no other list, and a diagnostic without filename stands
\* once in the list of the first member and in no other list.
C32_OwnerByFileName ==
    [][(RunStarts /\ Started.outcome = "ok") =>
          \A d \in Range(TheResult[2].diagnostics) :
              LET named == {f \in Range(Started.files) :
                               d.location.filepath = Some(FileName(f))}
              IN  /\ named # {} =>
                        /\ Holders(Started, d.message) = named
                        /\ Copies(Started, d.message) = 1
                  /\ (d.location.filepath = NoneOpt /\ Started.files # <<>>) =>
                        /\ Holders(Started, d.message) = {Started.files[1]}
                        /\ Copies(Started, d.message) = 1]_vars

\* A run of two members whose first is b.hql has published for b.hql the
\* diagnostic without filename and holds for a.hx the diagnostic that names
\* a.hx.
C32_Witness ==
    \E r \in DOMAIN runs :
        /\ runs[r].files = <<PB, PA>>
        /\ runs[r].next = 2
        /\ Len(published[PB]) = 1
        /\ published[PB][1].message = DiagAnon.message
        /\ runs[r].sent = <<<<PB, published[PB]>>>>
        /\ PA \in DOMAIN runs[r].all_diagnostics
        /\ Len(runs[r].all_diagnostics[PA]) = 1
        /\ runs[r].all_diagnostics[PA][1].message = DiagA.message

\* A call of get_field_context_hover has returned; the line and the column
\* of the call, when the position is within the text, and the text before
\* the cursor.
FieldCalled ==
    /\ Requested /\ Request.method = "get_field_context_hover"
    /\ ~Request.result.panic
FieldWithin ==
    /\ FieldCalled
    /\ Request.position.line < Len(Lines(documents[Request.uri]))
    /\ Request.position.character
         <= Len(Lines(documents[Request.uri])[Request.position.line + 1])
BeforeCursor ==
    SubSeq(Lines(documents[Request.uri])[Request.position.line + 1], 1,
           Request.position.character)

\* The opener of an object-access block stands at index i of the text.
OpenerAt(text, i) ==
    /\ i >= 1 /\ i + 2 <= Len(text)
    /\ text[i] = ":" /\ text[i + 1] = ":" /\ text[i + 2] = "{"
LastOpener(text) ==
    IF \E i \in DOMAIN text : OpenerAt(text, i)
    THEN CHOOSE i \in DOMAIN text :
            OpenerAt(text, i) /\ \A k \in DOMAIN text : OpenerAt(text, k) => k <= i
    ELSE 0
\* The text holds an opener and no closing brace after the last one.
InsideBlock(text) ==
    /\ LastOpener(text) # 0
    /\ \A j \in (LastOpener(text) + 3)..Len(text) : text[j] # "}"

\* C33: the resolver goes on to the context type and the field, and yields
\* what they give, exactly when the text before the cursor holds the opener
\* and no closing brace after the last opener; when the cursor is not
\* inside such a block, or not within the text, it yields nothing.
C33_InsideUnclosedBlock ==
    FieldCalled =>
        IF FieldWithin /\ InsideBlock(BeforeCursor)
        THEN LET context == find_context_type(
                               SubSeq(BeforeCursor, 1, LastOpener(BeforeCursor) - 1))
             IN  IsSome(Request.result.value)
                   <=> /\ IsSome(context)
                       /\ IsSome(lookup_field_in_schema(parsed_cache, Request.uri,
                                     Get(context)[1], Get(context)[2],
                                     Request.field_name))
        ELSE Request.result = Ret(NoneOpt)

\* The resolver has answered with the field type at the end of the line
\* N<User>::{name, inside the block opened at index 8.
C33_Witness ==
    /\ FieldWithin
    /\ IsSome(Request.result.value)
    /\ InsideBlock(BeforeCursor)
    /\ LastOpener(BeforeCursor) = 8
    /\ Request.position.character = 14

\* Hover has answered for the variable u; the traversal the cached query
\* assigns to u, and the type the answer gives it.
AnsweredVariable ==
    /\ Answered
    /\ ~Get(response).result.panic
    /\ AnsweredWord = Ret(Some("u"))
BoundTraversal == parsed_cache[DirKey(PA)].queries[1].statements[1].statement.value.expr
TypeAnswer(type) == Get(response).result = Ret(Some(Hover("**u**: " \o type)))

\* The type an edge-constructing step gives, and the type the kind of the
\* start node gives.
EdgeStepType(step) ==
    IF IsSome(step.step.edge_type)
    THEN "Edge<" \o Get(step.step.edge_type) \o ">" ELSE "Edge"
StartNodeType(start) ==
    CASE start.tag = "Node" -> "Node<" \o start.node_type \o ">"
      [] start.tag = "Edge" -> "Edge<" \o start.edge_type \o ">"
      [] start.tag = "Vector" -> "Vector<" \o start.vector_type \o ">"
      [] start.tag = "SearchVector" ->
            IF IsSome(start.vector_type)
            THEN "Vector<" \o Get(start.vector_type) \o ">" ELSE "Vector"
      [] OTHER -> "Traversal"

\* C34 as stated: the type of a variable bound to a traversal is the edge
\* type when the first step of the traversal constructs an edge, and the
\* type of the start node's kind in every other case.
C34_EdgeWhenFirstStepAddsEdge ==
    AnsweredVariable =>
        LET steps == BoundTraversal.steps
        IN  IF steps # <<>> /\ steps[1].step.tag = "AddEdge"
            THEN TypeAnswer(EdgeStepType(steps[1]))
            ELSE TypeAnswer(StartNodeType(BoundTraversal.start))

\* C34: the type of a variable bound to a traversal is the edge type of
\* the first step that constructs an edge, whichever place the step has,
\* and the type of the start node's kind when no step constructs an edge.
C34_EdgeWhenSomeStepAddsEdge ==
    AnsweredVariable =>
        LET steps == BoundTraversal.steps
            adds == {i \in DOMAIN steps : steps[i].step.tag = "AddEdge"}
        IN  IF adds # {}
            THEN \E i \in adds : /\ \A j \in adds : i <= j
                                 /\ TypeAnswer(EdgeStepType(steps[i]))
            ELSE TypeAnswer(StartNodeType(BoundTraversal.start))

\* Hover has answered Edge<Follows> for a traversal from a node whose
\* second step, not its first, constructs the edge.
C34_Witness ==
    /\ AnsweredVariable
    /\ BoundTraversal.start.tag = "Node"
    /\ BoundTraversal.steps = <<StepOut, StepAddEdge(Some("Follows"))>>
    /\ TypeAnswer("Edge<Follows>")

\* Hover has answered for a word that no earlier resolver matches, with the
\* cursor inside an object-access block that follows a context Kind<Type>.
EnclosingContext ==
    find_context_type(SubSeq(BeforeCursor, 1, LastOpener(BeforeCursor) - 1))
FieldAsked ==
    /\ Answered
    /\ ~AnsweredWord.panic /\ IsSome(AnsweredWord.value)
    /\ ~IsSome(FoundKeyword) /\ ~IsSome(FoundType)
    /\ ~IsSome(FoundVariable) /\ ~IsSome(FoundParameter)
    /\ InsideBlock(BeforeCursor)
    /\ IsSome(EnclosingContext)
AskedKind == Get(EnclosingContext)[1]
AskedType == Get(EnclosingContext)[2]
AskedField == Get(AnsweredWord.value)

\* The built-in fields of a kind, with their types.
BuiltinTypes(kind) ==
    ("id" :> "Uuid") @@ ("label" :> "String")
    @@ (IF kind = "E" THEN ("from_node" :> "Uuid") @@ ("to_node" :> "Uuid")
        ELSE IF kind = "V" THEN ("data" :> "[F64]") @@ ("score" :> "F64")
        ELSE <<>>)

\* The definitions of the kind in a schema version with their names and
\* fields, and the types the cached definitions of the asked kind and type
\* declare for the asked field.
DefinitionsOfKind(schema, kind) ==
    CASE kind = "N" ->
            {[name |-> d.name[2], fields |-> d.fields] :
                d \in Range(schema.node_schemas)}
      [] kind = "E" ->
            {[name |-> d.name[2],
              fields |-> IF IsSome(d.properties) THEN Get(d.properties) ELSE <<>>] :
                d \in Range(schema.edge_schemas)}
      [] kind = "V" ->
            {[name |-> d.name, fields |-> d.fields] :
                d \in Range(schema.vector_schemas)}
DeclaredFieldTypes ==
    IF DirKey(Get(response).uri) \notin DOMAIN parsed_cache THEN {}
    ELSE {field_type_to_string(f.field_type) :
            f \in UNION {Range(d.fields) :
                    d \in UNION {{x \in DefinitionsOfKind(schema, AskedKind) :
                                     x.name = AskedType} :
                            schema \in Range(parsed_cache[DirKey(Get(response).uri)].schema)}}
            \cap {f \in UNION {Range(d.fields) :
                    d \in UNION {DefinitionsOfKind(schema, AskedKind) :
                            schema \in Range(parsed_cache[DirKey(Get(response).uri)].schema)}} :
                  f.name = AskedField}}
FieldAnswer(type) ==
    Get(response).result
      = Answer("**" \o AskedField \o "**: " \o type
               \o " (from " \o AskedKind \o "::" \o AskedType \o ")")

\* C35 as stated: inside a block after Kind<Type>, hover on a field name
\* answers the built-in type when the name is a built-in field of the kind,
\* also when the definition declares a field of that name, otherwise the
\* type the cached definition of Type declares for the field, and nothing
\* when there is neither.
C35_BuiltinThenDeclared ==
    FieldAsked =>
        IF AskedField \in DOMAIN BuiltinTypes(AskedKind)
        THEN FieldAnswer(BuiltinTypes(AskedKind)[AskedField])
        ELSE IF DeclaredFieldTypes # {}
        THEN \E type \in DeclaredFieldTypes : FieldAnswer(type)
        ELSE Get(response).result = Ret(NoneOpt)

\* C35: the same when the workspace has a cached model; without one hover
\* answers nothing for the field, built-in or not.
C35_BuiltinThenDeclaredOfCachedModel ==
    FieldAsked =>
        IF DirKey(Get(response).uri) \notin DOMAIN parsed_cache
        THEN Get(response).result = Ret(NoneOpt)
        ELSE IF AskedField \in DOMAIN BuiltinTypes(AskedKind)
        THEN FieldAnswer(BuiltinTypes(AskedKind)[AskedField])
        ELSE IF DeclaredFieldTypes # {}
        THEN \E type \in DeclaredFieldTypes : FieldAnswer(type)
        ELSE Get(response).result = Ret(NoneOpt)

\* Hover has answered Uuid for to_node inside the block after E<Follows>,
\* whose cached definition declares to_node as String.
C35_Witness ==
    /\ FieldAsked
    /\ AskedKind = "E" /\ AskedType = "Follows" /\ AskedField = "to_node"
    /\ DeclaredFieldTypes = {"String"}
    /\ FieldAnswer("Uuid")

\* Go-to-definition has returned; the word at its position.
DefinitionAsked ==
    /\ Requested /\ Request.method = "definition"
    /\ ~Request.result.panic
AskedWord == get_word_at_position(documents, Request.uri, Request.position).value

\* The place definition d carries for go-to-definition: the place of its
\* name for a node or an edge; for a vector, whose name has no place of its
\* own, the place of the whole definition.
PlaceOf(d) == IF d.kind = "Vector" THEN d.def.loc ELSE d.def.name[1]

\* Place loc spans the name word and nothing more: one line, and as many
\* columns as the name has characters.
ExtentOfName(loc, word) ==
    /\ loc.start.line = loc.end.line
    /\ loc.end.column - loc.start.column = Len(word)

\* The path file within the directory of the request; the directory itself
\* when file is empty.
InDirectory(file) == [dir |-> DirKey(Request.uri), file |-> file]

\* The answer is the place loc under uri, each line and column one less than
\* the parser's and 0 when the parser's is 0.
AnswersLocation(uri, loc) ==
    Request.result
      = Ret(Some([scalar |->
           [uri |-> uri,
            range |-> [start |-> [line |-> ZeroBased(loc.start.line),
                                  character |-> ZeroBased(loc.start.column)],
                       end |-> [line |-> ZeroBased(loc.end.line),
                                character |-> ZeroBased(loc.end.column)]]]]))

\* C36 as stated: for a word that is the name of a node, edge or vector
\* definition of the cached model, go-to-definition returns the place of the
\* name of a definition of that name, in the file of the directory that the
\* place names, 0-based; for any other word, and without a word, it returns
\* nothing.
C36_LocationOfTheName ==
    DefinitionAsked =>
        IF IsSome(AskedWord) /\ DefinitionsNamed(Get(AskedWord)) # <<>>
        THEN \E i \in DOMAIN DefinitionsNamed(Get(AskedWord)) :
                LET loc == PlaceOf(DefinitionsNamed(Get(AskedWord))[i])
                IN  /\ ExtentOfName(loc, Get(AskedWord))
                    /\ IsSome(loc.filepath)
                    /\ AnswersLocation(InDirectory(Get(loc.filepath)), loc)
        ELSE Request.result = Ret(NoneOpt)

\* C36: for a word that is the name of a node, edge or vector definition of
\* the cached model, go-to-definition returns the place of the first
\* definition of that name, the schema versions taken in iteration order
\* and, within a version, nodes before edges before vectors: the place of
\* the name for a node or an edge, of the whole definition for a vector,
\* 0-based, under the directory joined with the file name the place carries,
\* which is the directory itself when it carries none.  For any other word,
\* without a word and without a cached model it returns nothing.
C36_FirstDefinitionPlace ==
    DefinitionAsked =>
        IF IsSome(AskedWord) /\ DefinitionsNamed(Get(AskedWord)) # <<>>
        THEN LET loc == PlaceOf(DefinitionsNamed(Get(AskedWord))[1])
             IN  AnswersLocation(InDirectory(IF IsSome(loc.filepath)
                                             THEN Get(loc.filepath) ELSE ""),
                                 loc)
        ELSE Request.result = Ret(NoneOpt)

\* Go-to-definition on Doc has returned, from a model whose only definition
\* of that name is a vector without file name on line 4, columns 1 to 20:
\* the directory, with line 3 and columns 0 to 19.
C36_Witness ==
    /\ DefinitionAsked
    /\ AskedWord = Some("Doc")
    /\ Len(DefinitionsNamed("Doc")) = 1
    /\ Request.result
         = Ret(Some([scalar |->
              [uri |-> [dir |-> "/d1", file |-> ""],
               range |-> [start |-> [line |-> U32(3), character |-> U32(0)],
                          end |-> [line |-> U32(3), character |-> U32(19)]]]]))

\* parse_error_location has been applied to the error text.
FailureText == TheResult[1].err
\* The save ended in a panic.
Panicked ==
    /\ response # NoneOpt
    /\ Get(response).method = "analyze_workspace"
    /\ Get(response).result.panic
\* The save has acted: its run is in flight or has published, or it ended
\* in a panic.  The diagnostic is with the first file of the listing.
Located == runs # <<>> \/ PB \in DOMAIN published \/ Panicked
TheDiagnostic ==
    IF runs # <<>> THEN runs[1].collected[runs[1].files[1]][1] ELSE published[PB][1]

\* A decimal number that a u32 holds, and its value.
Numeral(s) ==
    /\ s # <<>>
    /\ \A i \in DOMAIN s : s[i] \in Range(Digits)
    /\ IsSome(DecValue(s, Some(U32Zero)))
NumeralValue(s) == Get(DecValue(s, Some(U32Zero)))
\* One less than the u32 x, and 0 for 0.
OneLess(x) ==
    IF x = <<0, 0>> THEN x
    ELSE IF x[2] > 0 THEN <<x[1], x[2] - 1>> ELSE <<x[1] - 1, Half - 1>>

\* The arrow of a marker stands at index i of the text.
ArrowAt(text, i) ==
    /\ i >= 1 /\ i + 3 <= Len(text)
    /\ SubSeq(text, i, i + 3) = <<"-", "-", ">", " ">>
\* The index of the first arrow of the text, and of the first character c
\* from an index on; 0 when there is none.
FirstArrow(text) ==
    IF \E i \in DOMAIN text : ArrowAt(text, i)
    THEN CHOOSE i \in DOMAIN text :
            ArrowAt(text, i) /\ \A h \in 1..(i - 1) : ~ArrowAt(text, h)
    ELSE 0
FirstFrom(text, c, from) ==
    IF \E i \in from..Len(text) : text[i] = c
    THEN CHOOSE i \in from..Len(text) :
            text[i] = c /\ \A h \in from..(i - 1) : text[h] # c
    ELSE 0
\* The text holds, from its first arrow on, the marker of a pest error: the
\* arrow, the line number, the colon, the column number, the end of the
\* line.
MarkerColon(text) == FirstFrom(text, ":", FirstArrow(text) + 4)
MarkerEnd(text) == FirstFrom(text, "\n", MarkerColon(text) + 1)
MarkerLine(text) ==
    /\ FirstArrow(text) # 0
    /\ MarkerColon(text) # 0
    /\ MarkerEnd(text) # 0
    /\ Numeral(SubSeq(text, FirstArrow(text) + 4, MarkerColon(text) - 1))
    /\ Numeral(SubSeq(text, MarkerColon(text) + 1, MarkerEnd(text) - 1))
\* The text holds an arrow followed by a digit somewhere.
EmbedsMarker(text) ==
    \E i \in DOMAIN text :
        ArrowAt(text, i) /\ i + 4 <= Len(text) /\ text[i + 4] \in Range(Digits)

\* The location is that of the marker, each number one less and 0 for 0,
\* and (0, 0) for a text without marker.
LocationOfMarker ==
    LET text == FailureText
        result == parse_error_location(text)
    IN  /\ MarkerLine(text) =>
              result
                = <<OneLess(NumeralValue(SubSeq(text, FirstArrow(text) + 4,
                                                MarkerColon(text) - 1))),
                    OneLess(NumeralValue(SubSeq(text, MarkerColon(text) + 1,
                                                MarkerEnd(text) - 1)))>>
        /\ ~EmbedsMarker(text) => result = <<U32Zero, U32Zero>>
\* The diagnostic is built, starts at the location and ends on its line.
DiagnosticAtLocation ==
    LET result == parse_error_location(FailureText)
    IN  /\ ~Panicked
        /\ TheDiagnostic.range.start
             = [line |-> result[1], character |-> result[2]]
        /\ TheDiagnostic.range.end.line = result[1]
\* The diagnostic is built, its end column is the start column plus 50, and
\* the sum is a u32.
FiftyColumnsLater ==
    LET col == parse_error_location(FailureText)[2]
        carry == (col[2] + 50) \div Half
    IN  /\ ~Panicked
        /\ col[1] + carry < Half
        /\ TheDiagnostic.range.end.character
             = <<col[1] + carry, (col[2] + 50) % Half>>

\* C37: parse_error_location returns the line and the column of the marker
\* '--> L:C' of the error text, each one less and 0 for 0, and (0, 0) for a
\* text without marker; the diagnostic built from it starts there and ends
\* on the same line 50 columns later, and the addition does not overflow.
C37_LocationAndFiftyColumns ==
    Located => LocationOfMarker /\ DiagnosticAtLocation /\ FiftyColumnsLater
====
